---- MODULE Spec2Model ----
(***************************************************************************)
(* Discrete-event factory simulation (FactorySimulation.ts): the event     *)
(* queue and virtual clock (Env, PriorityQueue), the seeded generator      *)
(* (RNG), the contention primitives (Resource, Store), the metrics         *)
(* accumulator (Metrics), the three-stage line with its failure/repair     *)
(* process (Line) and the controller (FactorySimulation).                  *)
(*                                                                         *)
(* Time is counted in whole minutes.  Callbacks are records                *)
(* [k |-> kind, id |-> item]; Call runs one of them to completion,         *)
(* including every callback it hands off synchronously.                    *)
(***************************************************************************)
EXTENDS Integers, Sequences, FiniteSets, TLC

(***************************************************************************)
(* Bounds of the model.                                                    *)
(***************************************************************************)
\* start() calls explored between two resets
MaxStarts == 2
\* driver ticks that may be suspended in "await pushTelemetryToFoundation()"
MaxInflight == 1
\* items created in a run whose clock cannot advance
MaxItems == 9
\* calls made by a test driver on Env, Resource or Store
MaxCalls == 5

(***************************************************************************)
(* Program constants.                                                      *)
(***************************************************************************)
MIN == 1
HOUR == 60
\* LCG multiplier and increment of RNG.next
RngMul == 1103515245
RngInc == 12345
\* IEEE-754 double: bits of the significand
DoubleBits == 53
\* representation of "null" (lastFailureTime, estimatedNextFailureTime)
Null == -1

(***************************************************************************)
(* Arithmetic helpers.                                                     *)
(***************************************************************************)
\* F(x) with x evaluated once, before F is applied (call by value, as in the
\* source language)
Eager(x, F(_)) == CHOOSE y \in { F(v) : v \in { x } } : TRUE

Max(a, b) == IF a >= b THEN a ELSE b


RECURSIVE Pow2(_)
Pow2(n) == IF n <= 0 THEN 1 ELSE 2 * Pow2(n - 1)

\* number of bits of x >= 0 (0 for x = 0)
RECURSIVE BitLen(_)
BitLen(x) == IF x <= 0 THEN 0 ELSE 1 + BitLen(x \div 2)

\* Math.sqrt on a non-negative integer, rounded down
RECURSIVE Isqrt(_)
Isqrt(n) ==
  IF n < 2 THEN n
  ELSE Eager(2 * Isqrt(n \div 4), LAMBDA s :
         IF (s + 1) * (s + 1) <= n THEN s + 1 ELSE s)

\* a / b rounded up, b > 0
CeilDiv(a, b) == -((-a) \div b)

\* a / b rounded to the nearest integer, b > 0
RoundDiv(a, b) == (2 * a + b) \div (2 * b)

(***************************************************************************)
(* RNG.  JavaScript numbers are doubles: 1103515245 * state exceeds 2^53,  *)
(* so the product and the sum are each rounded to 53 significant bits      *)
(* (ties to even) before ">>> 0" takes the value modulo 2^32.  Numbers     *)
(* wider than 31 bits are kept as little-endian limbs of 15 bits.          *)
(***************************************************************************)
LimbBits == 15
Limb == Pow2(LimbBits)

\* little-endian limbs of 0 <= x < 2^31
ToLimbs(x) == << x % Limb, (x \div Limb) % Limb, x \div (Limb * Limb) >>

\* propagate carries so that every limb but the last is < 2^15
RECURSIVE Carry(_, _, _)
Carry(l0, i, c0) ==
  Eager(<< l0, c0 >>, LAMBDA a :
    LET l == a[1]
        c == a[2]
    IN  IF i > Len(l) THEN (IF c = 0 THEN l ELSE Append(l, c))
        ELSE Carry([l EXCEPT ![i] = (l[i] + c) % Limb], i + 1, (l[i] + c) \div Limb))

\* index of the highest non-zero limb (0 if the number is 0)
RECURSIVE TopLimb(_, _)
TopLimb(l, i) == IF i = 0 THEN 0 ELSE IF l[i] # 0 THEN i ELSE TopLimb(l, i - 1)

BigBitLen(l) ==
  LET t == TopLimb(l, Len(l))
  IN  IF t = 0 THEN 0 ELSE LimbBits * (t - 1) + BitLen(l[t])

\* exact product of two 3-limb numbers
BigMul(a0, b0) ==
  Eager(<< a0, b0 >>, LAMBDA ab :
  LET a == ab[1]
      b == ab[2]
      col(k) == LET I == { i \in 1..3 : k + 1 - i \in 1..3 }
                    term[i \in 1..3] == IF i \in I THEN a[i] * b[k + 1 - i] ELSE 0
                IN  term[1] + term[2] + term[3]
  IN  Carry(<< col(1), col(2), col(3), col(4), col(5) >>, 1, 0))

\* round to the nearest double (53 significant bits, ties to even)
RoundDouble(l0) ==
  Eager(l0, LAMBDA l :
  LET k == BigBitLen(l) - DoubleBits
  IN  IF k <= 0 THEN l
      ELSE LET unit == Pow2(k)
               r    == l[1] % unit
               down == l[1] - r
               odd  == (l[1] \div unit) % 2 = 1
               up   == (2 * r > unit) \/ (2 * r = unit /\ odd)
           IN  Carry([l EXCEPT ![1] = IF up THEN down + unit ELSE down], 1, 0))

\* constructor: this.state = seed >>> 0   (seed a small natural)
RngSeed(seed) == [ToLimbs(seed) EXCEPT ![3] = @ % 4]

\* next(): this.state = (1103515245 * this.state + 12345) >>> 0
RngNext(state) ==
  Eager(RoundDouble(BigMul(ToLimbs(RngMul), state)), LAMBDA p :
    Eager(RoundDouble(Carry([p EXCEPT ![1] = @ + RngInc], 1, 0)), LAMBDA q :
      << q[1], q[2], q[3] % 4 >>))

\* this.state & 0x7fffffff : the numerator of the deviate u = U31 / 2^31
U31(state) == state[1] + state[2] * Limb + (state[3] % 2) * Limb * Limb


\* bits of the deviate used by the fixed-point distributions: u ~ U8 / 256
U8(state) == U31(state) \div Pow2(23)
UnitU8 == 256

\* -ln(2) in thousandths, and -ln(1e-12) in thousandths
Ln2Milli == 693
LnFloorMilli == 27631

(***************************************************************************)
(* expovariate(mean) on the state left by next():                          *)
(*   u = Math.max(1e-12, next());  return -Math.log(u) * mean              *)
(* With z leading zero bits, u lies in [2^-(z+1), 2^-z) and -ln(u) is      *)
(* taken at the middle of ((z) ln 2, (z+1) ln 2]; the product is rounded   *)
(* up to whole minutes, so a positive mean gives a positive delay.         *)
(***************************************************************************)
Expovariate(state, mean) ==
  LET x == U31(state)
      z == 31 - BitLen(x)
      nl == IF x = 0 THEN LnFloorMilli ELSE ((2 * z + 1) * Ln2Milli) \div 2
  IN  CeilDiv(nl * mean, 1000)

(***************************************************************************)
(* triangular(low, mode, high) on the state left by next(); the three      *)
(* bounds are given in tenths of a minute (multiplier in tenths times the  *)
(* base time) and the result is rounded to whole minutes.                  *)
(*   c = (mode - low) / (high - low)                                       *)
(*   u < c ? low + sqrt(u (high-low)(mode-low))                            *)
(*         : high - sqrt((1-u)(high-low)(high-mode))                       *)
(***************************************************************************)
Triangular(state, low, mode, high) ==
  LET u == U8(state)
      d == high - low
      below == IF d > 0 THEN u * d < UnitU8 * (mode - low)
               ELSE IF d = 0 THEN mode - low > 0
               ELSE u * d > UnitU8 * (mode - low)
      v == IF below
           THEN low + Isqrt((u * d * (mode - low)) \div UnitU8)
           ELSE high - Isqrt(((UnitU8 - u) * d * (high - mode)) \div UnitU8)
  IN  RoundDiv(v, 10)

(***************************************************************************)
(* PriorityQueue: push appends and sorts by t.  Array.prototype.sort is    *)
(* stable (ECMAScript 2019), modelled as an insertion sort that keeps      *)
(* equal timestamps in their array order.                                  *)
(***************************************************************************)
RECURSIVE InsertByT(_, _)
InsertByT(sorted0, e) ==
  Eager(sorted0, LAMBDA sorted :
    IF sorted = << >> THEN << e >>
    ELSE LET last == sorted[Len(sorted)]
         IN  IF last.t <= e.t THEN Append(sorted, e)
             ELSE Append(InsertByT(SubSeq(sorted, 1, Len(sorted) - 1), e), last))

RECURSIVE SortByT(_)
SortByT(a0) ==
  Eager(a0, LAMBDA a :
    IF a = << >> THEN << >>
    ELSE InsertByT(SortByT(SubSeq(a, 1, Len(a) - 1)), a[Len(a)]))

\* a push that puts the entry in front of those with the same timestamp
RECURSIVE InsertBeforeT(_, _)
InsertBeforeT(sorted0, e) ==
  Eager(sorted0, LAMBDA sorted :
    IF sorted = << >> THEN << e >>
    ELSE LET last == sorted[Len(sorted)]
         IN  IF last.t < e.t THEN Append(sorted, e)
             ELSE Append(InsertBeforeT(SubSeq(sorted, 1, Len(sorted) - 1), e), last))

PQPushUnstable(a, e) == Eager(e, LAMBDA v : InsertBeforeT(a, v))

\* push(e): this.a.push(e); this.a.sort((x, y) => x.t - y.t)
PQPush(a, e) == Eager(e, LAMBDA v : SortByT(Append(a, v)))

(***************************************************************************)
(* Callbacks.  id is the item a callback was created for (0 if none), or   *)
(* the serial number of a test driver's callback.                          *)
(***************************************************************************)
Cb(kind, id) == [k |-> kind, id |-> id]

(***************************************************************************)
(* Env.  W is the whole simulation: every object a callback can reach.     *)
(***************************************************************************)
\* schedule(dt, action)
Schedule(W0, dt, action) ==
  Eager(W0, LAMBDA W :
    [W EXCEPT !.q = PQPush(@, [t |-> W.now + dt, action |-> action])])

\* scheduleAt(time, action)
ScheduleAt(W0, time, action) ==
  Eager(W0, LAMBDA W :
    [W EXCEPT !.q = PQPush(@, [t |-> time, action |-> action])])

\* a reset that rewinds the clock and keeps the queued events
EnvResetKeepsQueue(W) == [W EXCEPT !.now = 0]

\* a reset that empties the queue and keeps the clock
EnvResetKeepsClock(W) == [W EXCEPT !.q = << >>]

\* reset(): now = 0; q = new PriorityQueue()
EnvReset(W) == [W EXCEPT !.now = 0, !.q = << >>]

(***************************************************************************)
(* Metrics                                                                 *)
(***************************************************************************)
\* const simTime = this.params.simHours * HOUR   (simHours in tenths)
SimTime(W) == (W.params.simHours * HOUR) \div 10

\* The record of a Metrics object carries one field the class does not have:
\* area, the integral of the WIP counter over the part of [0, now] that lies
\* within the horizon, accumulated interval by interval as the counter changes.
Within(t, horizon) == IF t < horizon THEN t ELSE horizon

NewMetrics ==
  [completed |-> 0, enterTimes |-> << >>, cycleTimes |-> << >>,
   wip |-> 0, lastChange |-> 0, accum |-> 0, area |-> 0]

\* bumpAccum()
BumpAccum(W0) ==
  Eager(W0, LAMBDA W :
    [W EXCEPT !.m.accum = @ + W.m.wip * (W.now - W.m.lastChange),
              !.m.lastChange = W.now,
              !.m.area = @ + W.m.wip * (Within(W.now, SimTime(W))
                                          - Within(W.m.lastChange, SimTime(W)))])

\* enterTimes is a Map, kept as a sequence of [id, t] entries in insertion order
MapHas(map, id) == \E i \in 1..Len(map) : map[i].id = id

MapGet(map, id) == map[CHOOSE i \in 1..Len(map) : map[i].id = id].t

MapDelete(map, id) == SelectSeq(map, LAMBDA e : e.id # id)

MapSet(map, id, t) ==
  IF MapHas(map, id)
  THEN [i \in 1..Len(map) |-> IF map[i].id = id THEN [id |-> id, t |-> t] ELSE map[i]]
  ELSE Append(map, [id |-> id, t |-> t])

\* startItem(id)
StartItem(W0, id) ==
  Eager(BumpAccum(W0), LAMBDA B :
    [B EXCEPT !.m.wip = @ + 1, !.m.enterTimes = MapSet(@, id, B.now)])

\* a finishItem that leaves the item's entry timestamp in the map
FinishItemKeepsRecord(W0, id) ==
  Eager(BumpAccum(W0), LAMBDA B :
    [B EXCEPT !.m.wip = Max(0, @ - 1),
              !.m.cycleTimes = Append(@, B.now - MapGet(B.m.enterTimes, id)),
              !.m.completed = @ + 1])

\* finishItem(id)
FinishItem(W0, id) ==
  Eager(BumpAccum(W0), LAMBDA B :
    LET C == [B EXCEPT !.m.wip = Max(0, @ - 1)]
        D == IF MapHas(C.m.enterTimes, id)
             THEN [C EXCEPT !.m.cycleTimes = Append(@, C.now - MapGet(C.m.enterTimes, id)),
                            !.m.enterTimes = MapDelete(@, id)]
             ELSE C
    IN  [D EXCEPT !.m.completed = @ + 1])

\* finalize(simTime)
Finalize(W0, simTime) ==
  Eager(W0, LAMBDA W :
    [W EXCEPT !.m.accum = @ + W.m.wip * (simTime - W.m.lastChange),
              !.m.area = @ + W.m.wip * (simTime - Within(W.m.lastChange, simTime))])

\* Metrics.reset()
MetricsReset(W) == [W EXCEPT !.m = NewMetrics]

(***************************************************************************)
(* Resource and Store; r and b name the resource or buffer inside W.       *)
(***************************************************************************)
NewResource(capacity) == [capacity |-> capacity, inUse |-> 0, queue |-> << >>]

NewStore(capacity) ==
  [capacity |-> capacity, items |-> << >>, getQ |-> << >>, putQ |-> << >>]

Tail1(s) == SubSeq(s, 2, Len(s))

\* Callbacks of a test driver: each records its own invocation in W.log,
\* except onFault, which raises as soon as it is called and so changes nothing.
ProbeKinds == { "onGrant", "onPut", "onGet", "onEvent" }

Note(W, kind, id, arg) == [W EXCEPT !.log = Append(@, [k |-> kind, id |-> id, arg |-> arg])]

RECURSIVE Call(_, _, _)

\* an acquire that grants one unit more than the capacity
AcquireOverbooks(W0, r, callback) ==
  Eager(W0, LAMBDA W :
    IF W[r].inUse <= W[r].capacity
    THEN Call([W EXCEPT ![r].inUse = @ + 1], callback, 0)
    ELSE [W EXCEPT ![r].queue = Append(@, callback)])

\* an acquire that puts a waiter at the front of the queue
AcquireJumps(W0, r, callback) ==
  Eager(W0, LAMBDA W :
    IF W[r].inUse < W[r].capacity
    THEN Call([W EXCEPT ![r].inUse = @ + 1], callback, 0)
    ELSE [W EXCEPT ![r].queue = << callback >> \o @])

\* Resource.acquire(callback)
Acquire(W0, r, callback) ==
  Eager(W0, LAMBDA W :
    IF W[r].inUse < W[r].capacity
    THEN Call([W EXCEPT ![r].inUse = @ + 1], callback, 0)
    ELSE [W EXCEPT ![r].queue = Append(@, callback)])

\* a release that hands the unit over without giving it back first
ReleaseKeepsInUse(W0, r) ==
  Eager(W0, LAMBDA W :
    IF Len(W[r].queue) > 0
    THEN Call([W EXCEPT ![r].queue = Tail1(@), ![r].inUse = @ + 1],
              Head(W[r].queue), 0)
    ELSE [W EXCEPT ![r].inUse = Max(0, @ - 1)])

\* a release that frees the unit and leaves the waiters waiting
ReleaseNoHandOff(W0, r) ==
  Eager(W0, LAMBDA W : [W EXCEPT ![r].inUse = Max(0, @ - 1)])

\* a release that serves the newest waiter
ReleaseNewest(W0, r) ==
  Eager(W0, LAMBDA W :
    LET D == [W EXCEPT ![r].inUse = Max(0, @ - 1)]
        n == Len(D[r].queue)
    IN  IF n > 0
        THEN Call([D EXCEPT ![r].queue = SubSeq(@, 1, n - 1), ![r].inUse = @ + 1],
                  D[r].queue[n], 0)
        ELSE D)

\* a release that hands the unit over but leaves the waiter's continuation
\* to a later event instead of running it
ReleaseDefers(W0, r) ==
  Eager(W0, LAMBDA W :
    LET D == [W EXCEPT ![r].inUse = Max(0, @ - 1)]
    IN  IF Len(D[r].queue) > 0
        THEN Schedule([D EXCEPT ![r].queue = Tail1(@), ![r].inUse = @ + 1],
                      0, Head(D[r].queue))
        ELSE D)

\* Resource.release().  A call made with no unit in use, where the clamp
\* Math.max(0, ...) takes effect, is recorded in W.log as "underflow".
Release(W0, r) ==
  Eager(W0, LAMBDA V :
    LET W == IF V[r].inUse = 0 THEN Note(V, "underflow", 0, 0) ELSE V
        D == [W EXCEPT ![r].inUse = Max(0, @ - 1)]
    IN  IF Len(D[r].queue) > 0
        THEN Call([D EXCEPT ![r].queue = Tail1(@), ![r].inUse = @ + 1],
                  Head(D[r].queue), 0)
        ELSE D)

\* a put that stores the item whatever the capacity
PutUnbounded(W0, b, item, callback) ==
  Eager(W0, LAMBDA W :
    IF Len(W[b].getQ) > 0
    THEN Call(Call([W EXCEPT ![b].getQ = Tail1(@)], Head(W[b].getQ), item),
              callback, 0)
    ELSE Call([W EXCEPT ![b].items = Append(@, item)], callback, 0))

\* a put that hands the item to the waiting consumer and stores it as well
PutStoresToo(W0, b, item, callback) ==
  Eager(W0, LAMBDA W :
    IF Len(W[b].getQ) > 0
    THEN Call(Call([W EXCEPT ![b].getQ = Tail1(@), ![b].items = Append(@, item)],
                   Head(W[b].getQ), item),
              callback, 0)
    ELSE IF Len(W[b].items) < W[b].capacity
    THEN Call([W EXCEPT ![b].items = Append(@, item)], callback, 0)
    ELSE [W EXCEPT ![b].putQ = Append(@, [item |-> item, callback |-> callback])])

\* Store.put(item, callback)
Put(W0, b, item, callback) ==
  Eager(W0, LAMBDA W :
    IF Len(W[b].getQ) > 0
    THEN Call(Call([W EXCEPT ![b].getQ = Tail1(@)], Head(W[b].getQ), item),
              callback, 0)
    ELSE IF Len(W[b].items) < W[b].capacity
    THEN Call([W EXCEPT ![b].items = Append(@, item)], callback, 0)
    ELSE [W EXCEPT ![b].putQ = Append(@, [item |-> item, callback |-> callback])])

\* a get that admits no blocked producer
AdmitNone(S0, b) == Eager(S0, LAMBDA S : S)

\* the part of Store.get that admits the first blocked producer, if any, after
\* the oldest item has been removed
Admit(S0, b) ==
  Eager(S0, LAMBDA S :
    IF Len(S[b].putQ) > 0
    THEN LET p == Head(S[b].putQ)
             P == [S EXCEPT ![b].putQ = Tail1(@)]
         IN  Call(IF Len(P[b].getQ) > 0
                  THEN Call([P EXCEPT ![b].getQ = Tail1(@)], Head(P[b].getQ), p.item)
                  ELSE [P EXCEPT ![b].items = Append(@, p.item)],
                  p.callback, 0)
    ELSE S)

\* a get that takes the newest item
GetNewest(W0, b, callback) ==
  Eager(W0, LAMBDA W :
    LET n == Len(W[b].items)
    IN  IF n > 0
        THEN Call(Admit([W EXCEPT ![b].items = SubSeq(@, 1, n - 1)], b), callback,
                  W[b].items[n])
        ELSE [W EXCEPT ![b].getQ = Append(@, callback)])

\* Store.get(callback)
Get(W0, b, callback) ==
  Eager(W0, LAMBDA W :
    IF Len(W[b].items) > 0
    THEN Call(Admit([W EXCEPT ![b].items = Tail1(@)], b), callback, Head(W[b].items))
    ELSE [W EXCEPT ![b].getQ = Append(@, callback)])

(***************************************************************************)
(* Line.  Times drawn from triangular() take their bounds in tenths:       *)
(* params.*VarLow and *VarHigh are the multipliers times ten.              *)
(***************************************************************************)
\* scheduleNextArrival()
ScheduleNextArrival(W0) ==
  Eager(W0, LAMBDA W :
    Eager(RngNext(W.rng), LAMBDA r :
      Schedule([W EXCEPT !.rng = r], Expovariate(r, W.params.arrivalMean),
               Cb("arrival", 0))))

\* startItemFlow(itemId)
StartItemFlow(W, itemId) == Acquire(W, "cutter", Cb("cutGranted", itemId))

\* cellProcessingLoop()
CellProcessingLoop(W) == Get(W, "buf12", Cb("cellGet", 0))

\* processCell(part, onComplete), onComplete being the cell loop
ProcessCell(W, part) == Acquire(W, "robot", Cb("robotGranted", part))

\* packingLoop()
PackingLoop(W) == Get(W, "buf23", Cb("packGet", 0))

\* processPackaging(part2, onComplete), onComplete being the pack loop
ProcessPackaging(W, part2) == Acquire(W, "packer", Cb("packerGranted", part2))

\* scheduleNextFailure()
ScheduleNextFailure(W0) ==
  Eager(W0, LAMBDA W :
    Eager(RngNext(W.rng), LAMBDA r :
      Eager(Expovariate(r, W.params.failMTBF), LAMBDA up :
        Schedule([W EXCEPT !.rng = r, !.estimatedNextFailureTime = W.now + up],
                 up, Cb("failure", 0)))))

\* a source that starts two cell loops
StartSourceTwoLoops(W) ==
  PackingLoop(CellProcessingLoop(CellProcessingLoop(ScheduleNextArrival(W))))

\* startSource()
StartSource(W) == PackingLoop(CellProcessingLoop(ScheduleNextArrival(W)))

\* startRobotFailures()
StartRobotFailures(W0) ==
  Eager(W0, LAMBDA W :
    IF ~W.robotFailuresEnabled THEN W ELSE ScheduleNextFailure(W))

\* an arrival that schedules no further arrival
OnArrivalLast(W0) ==
  Eager(W0, LAMBDA W :
    LET id == W.nextItemId
    IN  StartItemFlow(StartItem([W EXCEPT !.nextItemId = @ + 1], id), id))

\* the arrival event scheduled by scheduleNextArrival
OnArrival(W0) ==
  Eager(W0, LAMBDA W :
    LET id == W.nextItemId
    IN  ScheduleNextArrival(
          StartItemFlow(StartItem([W EXCEPT !.nextItemId = @ + 1], id), id)))

\* a stage time: triangular(varLow * time, time, varHigh * time)
StageTime(r, varLow, time, varHigh) ==
  Triangular(r, varLow * time, 10 * time, varHigh * time)

\* cutter granted to itemId: draw the cut time and schedule the put
OnCutGranted(W0, itemId) ==
  Eager(W0, LAMBDA W :
    Eager(RngNext(W.rng), LAMBDA r :
      Schedule([W EXCEPT !.rng = r],
               StageTime(r, W.params.cutTimeVarLow, W.params.cutTime,
                         W.params.cutTimeVarHigh),
               Cb("cutDone", itemId))))

\* a cell stage that takes no time
OnHeaterGrantedInstant(W0, part) ==
  Eager(W0, LAMBDA W :
    Eager(RngNext(W.rng), LAMBDA r :
      Schedule([W EXCEPT !.rng = r], 0, Cb("cellDone", part))))

\* heater granted (robot already held): draw the cell time and schedule the put
OnHeaterGranted(W0, part) ==
  Eager(W0, LAMBDA W :
    Eager(RngNext(W.rng), LAMBDA r :
      Schedule([W EXCEPT !.rng = r],
               StageTime(r, W.params.cellTimeVarLow, W.params.cellTime,
                         W.params.cellTimeVarHigh),
               Cb("cellDone", part))))

\* packer granted: draw the pack time and schedule the completion
OnPackerGranted(W0, part2) ==
  Eager(W0, LAMBDA W :
    Eager(RngNext(W.rng), LAMBDA r :
      Schedule([W EXCEPT !.rng = r],
               StageTime(r, W.params.packTimeVarLow, W.params.packTime,
                         W.params.packTimeVarHigh),
               Cb("packDone", part2))))

\* a pack completion that marks its item complete twice
OnPackDoneTwice(W, part2) ==
  PackingLoop(FinishItem(FinishItem(Release(W, "packer"), part2), part2))

\* the pack-completion event
OnPackDone(W, part2) == PackingLoop(FinishItem(Release(W, "packer"), part2))

\* callback of buf23.put in processCell
OnCellPut(W) == CellProcessingLoop(Release(Release(W, "heater"), "robot"))

\* a failure that starts its repair without taking the robot
OnFailureSkipsRobot(W0) ==
  Eager(W0, LAMBDA W :
    Call([W EXCEPT !.isRobotFailed = TRUE,
                   !.failureCount = @ + 1,
                   !.lastFailureTime = W.now],
         Cb("repairGranted", 0), 0))

\* a failure that schedules the next failure as it fires
OnFailureReschedules(W0) ==
  Eager(W0, LAMBDA W :
    ScheduleNextFailure(
      Acquire([W EXCEPT !.isRobotFailed = TRUE,
                        !.failureCount = @ + 1,
                        !.lastFailureTime = W.now],
              "robot", Cb("repairGranted", 0))))

\* a failure whose repair takes a robot unit at once, whoever holds it
OnFailurePreempts(W0) ==
  Eager(W0, LAMBDA W :
    Call([W EXCEPT !.isRobotFailed = TRUE,
                   !.failureCount = @ + 1,
                   !.lastFailureTime = W.now,
                   !.robot.inUse = @ + 1],
         Cb("repairGranted", 0), 0))

\* the failure event scheduled by scheduleNextFailure
OnFailure(W0) ==
  Eager(W0, LAMBDA W :
    Acquire([W EXCEPT !.isRobotFailed = TRUE,
                      !.failureCount = @ + 1,
                      !.lastFailureTime = W.now],
            "robot", Cb("repairGranted", 0)))

\* robot granted to the repair: draw the repair time
OnRepairGranted(W0) ==
  Eager(W0, LAMBDA W :
    Eager(RngNext(W.rng), LAMBDA r :
      Schedule([W EXCEPT !.rng = r], Expovariate(r, W.params.failMTTR),
               Cb("repairDone", 0))))

\* a repair that never gives the robot back
OnRepairDoneKeepsRobot(W0) ==
  Eager(W0, LAMBDA W : ScheduleNextFailure([W EXCEPT !.isRobotFailed = FALSE]))

\* the repair-completion event
OnRepairDone(W0) ==
  Eager(W0, LAMBDA W :
    ScheduleNextFailure(Release([W EXCEPT !.isRobotFailed = FALSE], "robot")))

\* a cut that frees the cutter before its put into buffer-1 is admitted
OnCutDoneReleasesFirst(W, itemId) ==
  Put(Release(W, "cutter"), "buf12", itemId, Cb("cutPut", itemId))

\* the cut-completion event: put the item into buffer-1; the producer stays
\* blocked, the cutter still held, until the put is admitted
OnCutDone(W, itemId) == Put(W, "buf12", itemId, Cb("cutPut", itemId))

\* callback of buf12.put in startItemFlow
OnCutPut(W) == Release(W, "cutter")

\* a cell stage that frees heater and robot before its put into buffer-2
OnCellDoneReleasesFirst(W, part) ==
  Put(Release(Release(W, "heater"), "robot"), "buf23", part, Cb("cellPut", part))

\* the cell-completion event: put the part into buffer-2; robot and heater
\* stay held until the put is admitted
OnCellDone(W, part) == Put(W, "buf23", part, Cb("cellPut", part))

\* robot granted to the cell stage: only now ask for the heater
OnRobotGranted(W, part) == Acquire(W, "heater", Cb("heaterGranted", part))

\* run callback c with argument arg (the item handed over by a Store)
Call(W0, c, arg) ==
  Eager(W0, LAMBDA W :
    CASE c.k = "arrival"       -> OnArrival(W)
      [] c.k = "cutGranted"    -> OnCutGranted(W, c.id)
      [] c.k = "cutDone"       -> OnCutDone(W, c.id)
      [] c.k = "cutPut"        -> OnCutPut(W)
      [] c.k = "cellGet"       -> ProcessCell(W, arg)
      [] c.k = "robotGranted"  -> OnRobotGranted(W, c.id)
      [] c.k = "heaterGranted" -> OnHeaterGranted(W, c.id)
      [] c.k = "cellDone"      -> OnCellDone(W, c.id)
      [] c.k = "cellPut"       -> OnCellPut(W)
      [] c.k = "packGet"       -> ProcessPackaging(W, arg)
      [] c.k = "packerGranted" -> OnPackerGranted(W, c.id)
      [] c.k = "packDone"      -> OnPackDone(W, c.id)
      [] c.k = "failure"       -> OnFailure(W)
      [] c.k = "repairGranted" -> OnRepairGranted(W)
      [] c.k = "repairDone"    -> OnRepairDone(W)
      [] c.k \in ProbeKinds   -> Note(W, c.k, c.id, arg)
      [] c.k = "onFault"       -> W)

\* Env.step(): the simulation after the call, and the value returned
Step(W0) ==
  Eager(W0, LAMBDA W :
    IF Len(W.q) = 0 THEN [W |-> W, ran |-> FALSE]
    ELSE [W |-> Call([W EXCEPT !.q = Tail1(@), !.now = Head(W.q).t], Head(W.q).action, 0),
          ran |-> TRUE])

(***************************************************************************)
(* Configurations (SimParams).  Times are whole minutes; the triangular    *)
(* multipliers and simHours are in tenths (0.8 is 8, half an hour is 5).   *)
(***************************************************************************)
BaseParams ==
  [randomSeed |-> 42, simHours |-> 5,
   arrivalMean |-> 4 * MIN, cutTime |-> 5 * MIN, cellTime |-> 6 * MIN, packTime |-> 5 * MIN,
   cutTimeVarLow |-> 8, cutTimeVarHigh |-> 12,
   cellTimeVarLow |-> 8, cellTimeVarHigh |-> 12,
   packTimeVarLow |-> 8, packTimeVarHigh |-> 13,
   cutterCapacity |-> 1, robotCapacity |-> 1, heaterCapacity |-> 1, packerCapacity |-> 1,
   buf12Cap |-> 1, buf23Cap |-> 1,
   stepDelayMs |-> 250, failMTBF |-> 15 * MIN, failMTTR |-> 6 * MIN]

\* configurations a controller is constructed with
InitParams == { BaseParams }

\* arguments of updateParams explored
Partials ==
  { [buf12Cap |-> 2],
    [randomSeed |-> 7, cellTime |-> 9 * MIN, robotCapacity |-> 2, failMTBF |-> 8 * MIN] }

\* { ...this.params, ...newParams }
\* a merge in which the stored value wins over the partial's
MergeOldWins(old, new) ==
  [f \in DOMAIN old \cup DOMAIN new |-> IF f \in DOMAIN old THEN old[f] ELSE new[f]]

Merge(old, new) ==
  [f \in DOMAIN old \cup DOMAIN new |-> IF f \in DOMAIN new THEN new[f] ELSE old[f]]

(***************************************************************************)
(* Line and FactorySimulation construction                                 *)
(***************************************************************************)
\* new Line(env, rng, metrics, params): the fields of a line
LineFields(params) ==
  [cutter |-> NewResource(params.cutterCapacity),
   robot  |-> NewResource(params.robotCapacity),
   heater |-> NewResource(params.heaterCapacity),
   packer |-> NewResource(params.packerCapacity),
   buf12  |-> NewStore(params.buf12Cap),
   buf23  |-> NewStore(params.buf23Cap),
   robotFailuresEnabled |-> TRUE,
   nextItemId |-> 1,
   isRobotFailed |-> FALSE,
   failureCount |-> 0,
   lastFailureTime |-> Null,
   estimatedNextFailureTime |-> Null]

\* this.line = new Line(this.env, this.rng, this.metrics, this.params)
NewLine(W0) == Eager(W0, LAMBDA W : LineFields(W.params) @@ W)

\* new FactorySimulation(params)
NewSimulation(params) ==
  NewLine([params |-> params, now |-> 0, q |-> << >>,
           rng |-> RngSeed(params.randomSeed), m |-> NewMetrics, log |-> << >>])

\* a reset that keeps the state of the random number generator
ResetKeepsRng(W) == NewLine(MetricsReset(EnvReset(W)))

\* what reset() does to env, rng, metrics and line
ResetSimulation(W) ==
  NewLine(MetricsReset([EnvReset(W) EXCEPT !.rng = RngSeed(W.params.randomSeed)]))

\* a start that resumes a paused line instead of arming it again
StartResumes(W) == IF W.q # << >> THEN W ELSE StartRobotFailures(StartSource(W))

\* a start that arms no generator and no loop
StartArmsNothing(W) == W

\* what start() does to the line: startSource(); startRobotFailures()
StartSimulation(W) == StartRobotFailures(StartSource(W))

(***************************************************************************)
(* Snapshots (getState).  Quotients are kept as [num, den].                *)
(***************************************************************************)
Ratio(a, b) == [num |-> a, den |-> b]

RECURSIVE SumSeq(_)
SumSeq(s) == IF s = << >> THEN 0 ELSE Head(s) + SumSeq(Tail(s))

ResourceStatus(r) ==
  [capacity |-> r.capacity, inUse |-> r.inUse, queueLength |-> Len(r.queue),
   utilization |-> Ratio(r.inUse, r.capacity)]

StoreStatus(b) ==
  [capacity |-> b.capacity, items |-> Len(b.items), getQueue |-> Len(b.getQ),
   putQueue |-> Len(b.putQ), utilization |-> Ratio(Len(b.items), b.capacity)]

LineStatus(W) ==
  [cutter |-> ResourceStatus(W.cutter),
   robot  |-> ResourceStatus(W.robot) @@
              [isFailed |-> W.isRobotFailed, failureCount |-> W.failureCount,
               lastFailureTime |-> W.lastFailureTime,
               estimatedNextFailureTime |-> W.estimatedNextFailureTime],
   heater |-> ResourceStatus(W.heater),
   packer |-> ResourceStatus(W.packer),
   buf12  |-> StoreStatus(W.buf12),
   buf23  |-> StoreStatus(W.buf23)]

MetricsStatus(m) ==
  [completed |-> m.completed, wip |-> m.wip,
   avgCycleTime |-> IF Len(m.cycleTimes) > 0
                    THEN Ratio(SumSeq(m.cycleTimes), Len(m.cycleTimes))
                    ELSE Ratio(0, 1)]

GetState(W, running) ==
  [time |-> W.now, isRunning |-> running,
   resources |-> LineStatus(W), metrics |-> MetricsStatus(W.m)]

Event(type, W, running) == [type |-> type, state |-> GetState(W, running)]

(***************************************************************************)
(* State of one controller and of its observers.                           *)
(***************************************************************************)
VARIABLES
  sim,                \* params, env, rng, metrics and line of the controller
  isRunning,          \* FactorySimulation.isRunning
  intervalId,         \* FactorySimulation.intervalId (Null, or 1 when armed)
  writeToFoundation,  \* telemetry writes enabled: a tick suspends in its await
  inflight,           \* ticks that have stepped and await the telemetry write
  lastEvent,          \* the last event emitted (state, complete, reset)
  stepped,            \* value returned by the last env.step()
  starts,             \* start() calls that took effect since construction or reset
  cleanRun,           \* at most one start(), and no stop(), since construction or reset
  ref,                \* a controller freshly constructed with the same params,
                      \* started and stepped in lockstep while cleanRun
  calls               \* calls made so far by a test driver

vars == << sim, isRunning, intervalId, writeToFoundation, inflight, lastEvent,
           stepped, starts, cleanRun, ref, calls >>

NewRef(params) == [sim |-> NewSimulation(params), isRunning |-> FALSE]

Init ==
  /\ \E p \in InitParams : sim = NewSimulation(p)
  /\ isRunning = FALSE
  /\ intervalId = Null
  /\ writeToFoundation \in BOOLEAN
  /\ inflight = 0
  /\ lastEvent = Event("none", sim, FALSE)
  /\ stepped = FALSE
  /\ starts = 0
  /\ cleanRun = TRUE
  /\ ref = NewRef(sim.params)
  /\ calls = 0

\* the controller proper: what start() and stop() read and write
Ctl == [sim |-> sim, isRunning |-> isRunning, intervalId |-> intervalId]

\* a start() without the isRunning guard
StartUnguarded(C) ==
  [sim |-> StartSimulation(C.sim), isRunning |-> TRUE, intervalId |-> 1]

\* start(), as a function of the controller: returns at once when running,
\* else marks running, arms the line's generators and loops and the interval
StartCall(C) ==
  IF C.isRunning THEN C
  ELSE [sim |-> StartSimulation(C.sim), isRunning |-> TRUE, intervalId |-> 1]

\* a stop() that also empties the event queue
StopDrains(C) ==
  IF ~C.isRunning THEN C
  ELSE [C EXCEPT !.isRunning = FALSE, !.intervalId = Null, !.sim.q = << >>]

\* a stop() that clears the flag and leaves the interval armed
StopKeepsInterval(C) ==
  IF ~C.isRunning THEN C
  ELSE [C EXCEPT !.isRunning = FALSE]

\* stop(), as a function of the controller: returns at once when not running,
\* else clears the flag and the interval
StopCall(C) ==
  IF ~C.isRunning THEN C
  ELSE [C EXCEPT !.isRunning = FALSE, !.intervalId = Null]

\* start()
Start ==
  /\ starts < MaxStarts
  /\ isRunning' = StartCall(Ctl).isRunning
  /\ sim' = StartCall(Ctl).sim
  /\ intervalId' = StartCall(Ctl).intervalId
  /\ starts' = IF isRunning THEN starts ELSE starts + 1
  /\ cleanRun' = IF isRunning THEN cleanRun ELSE (cleanRun /\ starts = 0)
  /\ ref' = IF isRunning THEN ref
            ELSE IF cleanRun' THEN [sim |-> StartSimulation(ref.sim), isRunning |-> TRUE]
            ELSE NewRef(sim.params)
  /\ UNCHANGED << writeToFoundation, inflight, lastEvent, stepped, calls >>

\* stop()
Stop ==
  /\ isRunning' = StopCall(Ctl).isRunning
  /\ intervalId' = StopCall(Ctl).intervalId
  /\ sim' = StopCall(Ctl).sim
  /\ cleanRun' = IF isRunning THEN FALSE ELSE cleanRun
  /\ ref' = IF isRunning THEN NewRef(sim.params) ELSE ref
  /\ UNCHANGED << writeToFoundation, inflight, lastEvent, stepped, starts, calls >>

\* reset(), on the configuration params
ResetTo(params) ==
  /\ isRunning' = FALSE
  /\ intervalId' = Null
  /\ sim' = ResetSimulation([sim EXCEPT !.params = params])
  /\ lastEvent' = Event("reset", sim', isRunning')
  /\ starts' = 0
  /\ cleanRun' = TRUE
  /\ ref' = NewRef(params)
  /\ UNCHANGED << writeToFoundation, inflight, stepped, calls >>

Reset == ResetTo(sim.params)

\* updateParams(newParams)
UpdateParams == \E newParams \in Partials : ResetTo(Merge(sim.params, newParams))

\* a tick that runs one more event before it completes the run
TickCompleteSteps ==
  /\ intervalId # Null
  /\ sim.now >= SimTime(sim)
  /\ isRunning' = FALSE
  /\ intervalId' = Null
  /\ sim' = Finalize(Step(sim).W, SimTime(sim))
  /\ stepped' = Step(sim).ran
  /\ lastEvent' = Event("complete", sim', isRunning')
  /\ UNCHANGED << writeToFoundation, inflight, starts, cleanRun, ref, calls >>

\* interval callback, horizon reached: stop(); finalize; emit("complete")
TickComplete ==
  /\ intervalId # Null
  /\ sim.now >= SimTime(sim)
  /\ isRunning' = FALSE
  /\ intervalId' = Null
  /\ sim' = Finalize(sim, SimTime(sim))
  /\ lastEvent' = Event("complete", sim', isRunning')
  /\ ref' = IF cleanRun THEN [sim |-> Finalize(ref.sim, SimTime(ref.sim)), isRunning |-> FALSE]
            ELSE ref
  /\ UNCHANGED << writeToFoundation, inflight, stepped, starts, cleanRun, calls >>

\* a tick whose horizon check lets the clock equal to the horizon through
TickStepLate ==
  /\ intervalId # Null
  /\ sim.now <= SimTime(sim)
  /\ writeToFoundation => inflight < MaxInflight
  /\ \E res \in { Step(sim) } : sim' = res.W /\ stepped' = res.ran
  /\ ref' = IF cleanRun THEN [ref EXCEPT !.sim = Step(ref.sim).W] ELSE ref
  /\ IF writeToFoundation
     THEN inflight' = inflight + 1 /\ UNCHANGED lastEvent
     ELSE lastEvent' = Event("state", sim', isRunning) /\ UNCHANGED inflight
  /\ UNCHANGED << isRunning, intervalId, writeToFoundation, starts, cleanRun, calls >>

\* interval callback below the horizon: await env.step(); await pushTelemetry...;
\* emit("state").  Without telemetry writes nothing can run between the step and
\* the emit; with them the tick is suspended until TelemetryDone.
TickStep ==
  /\ intervalId # Null
  /\ sim.now < SimTime(sim)
  /\ writeToFoundation => inflight < MaxInflight
  /\ \E res \in { Step(sim) } : sim' = res.W /\ stepped' = res.ran
  /\ ref' = IF cleanRun THEN [ref EXCEPT !.sim = Step(ref.sim).W] ELSE ref
  /\ IF writeToFoundation
     THEN inflight' = inflight + 1 /\ UNCHANGED lastEvent
     ELSE lastEvent' = Event("state", sim', isRunning) /\ UNCHANGED inflight
  /\ UNCHANGED << isRunning, intervalId, writeToFoundation, starts, cleanRun, calls >>

\* a suspended tick resumes after its telemetry write: emit("state", getState())
TelemetryDone ==
  /\ inflight > 0
  /\ inflight' = inflight - 1
  /\ lastEvent' = Event("state", sim, isRunning)
  /\ UNCHANGED << sim, isRunning, intervalId, writeToFoundation, stepped, starts,
                  cleanRun, ref, calls >>

Next ==
  \/ Start
  \/ Stop
  \/ Reset
  \/ UpdateParams
  \/ TickComplete
  \/ TickStep
  \/ TelemetryDone

Spec == Init /\ [][Next]_vars


(***************************************************************************)
(* Test drivers for the primitives: arbitrary calls on one Resource, one   *)
(* Store or one Env, with callbacks that only record their invocation.     *)
(* A driver also records each call it makes (kinds "acquire", "release",   *)
(* "put", "get", "schedule", "step") so that W.log is the history of calls *)
(* and callbacks.                                                          *)
(***************************************************************************)
Count(log, kind) == Cardinality({ i \in 1..Len(log) : log[i].k = kind })

Only(log, kind) == SelectSeq(log, LAMBDA e : e.k = kind)

Idle == /\ isRunning = FALSE /\ intervalId = Null /\ writeToFoundation = FALSE
        /\ inflight = 0 /\ stepped = FALSE /\ starts = 0 /\ cleanRun = TRUE
        /\ calls = 0

DriverVars == << isRunning, intervalId, writeToFoundation, inflight, lastEvent,
                 starts, cleanRun, ref >>

\* ---- Resource: the driver works on the cutter of a fresh line
InitResource ==
  /\ \E c \in 1..2 : sim = NewSimulation([BaseParams EXCEPT !.cutterCapacity = c])
  /\ Idle
  /\ lastEvent = Event("none", sim, FALSE)
  /\ ref = NewRef(sim.params)

ResAcquire ==
  /\ calls < MaxCalls
  /\ LET n == Count(sim.log, "acquire") + 1
     IN  sim' = Acquire(Note(sim, "acquire", n, 0), "cutter", Cb("onGrant", n))
  /\ calls' = calls + 1
  /\ UNCHANGED << DriverVars, stepped >>

ResRelease ==
  /\ calls < MaxCalls
  /\ sim' = Release(Note(sim, "release", 0, 0), "cutter")
  /\ calls' = calls + 1
  /\ UNCHANGED << DriverVars, stepped >>

NextResource == ResAcquire \/ ResRelease

SpecResource == InitResource /\ [][NextResource]_vars

\* ---- Store: the driver works on buf12 of a fresh line; item n is the n-th put
InitStore ==
  /\ \E c \in 1..2 : sim = NewSimulation([BaseParams EXCEPT !.buf12Cap = c])
  /\ Idle
  /\ lastEvent = Event("none", sim, FALSE)
  /\ ref = NewRef(sim.params)

StorePut ==
  /\ calls < MaxCalls
  /\ LET n == Count(sim.log, "put") + 1
     IN  sim' = Put(Note(sim, "put", n, 0), "buf12", n, Cb("onPut", n))
  /\ calls' = calls + 1
  /\ UNCHANGED << DriverVars, stepped >>

StoreGet ==
  /\ calls < MaxCalls
  /\ LET n == Count(sim.log, "get") + 1
     IN  sim' = Get(Note(sim, "get", n, 0), "buf12", Cb("onGet", n))
  /\ calls' = calls + 1
  /\ UNCHANGED << DriverVars, stepped >>

NextStore == StorePut \/ StoreGet

SpecStore == InitStore /\ [][NextStore]_vars

\* ---- Env: the n-th scheduled action is the callback with serial n
Delays == 0..2
Times == 0..3

InitEnv ==
  /\ sim = NewSimulation(BaseParams)
  /\ Idle
  /\ lastEvent = Event("none", sim, FALSE)
  /\ ref = NewRef(sim.params)

EnvSchedule ==
  /\ calls < MaxCalls
  /\ \E dt \in Delays :
       LET n == Count(sim.log, "schedule") + 1
       IN  sim' = Schedule(Note(sim, "schedule", n, sim.now + dt), dt, Cb("onEvent", n))
  /\ calls' = calls + 1
  /\ UNCHANGED << DriverVars, stepped >>

EnvScheduleAt ==
  /\ calls < MaxCalls
  /\ \E time \in Times :
       LET n == Count(sim.log, "schedule") + 1
       IN  sim' = ScheduleAt(Note(sim, "schedule", n, time), time, Cb("onEvent", n))
  /\ calls' = calls + 1
  /\ UNCHANGED << DriverVars, stepped >>

EnvStep ==
  /\ calls < MaxCalls
  /\ \E res \in { Step(Note(sim, "step", 0, 0)) } : sim' = res.W /\ stepped' = res.ran
  /\ calls' = calls + 1
  /\ UNCHANGED DriverVars

NextEnv == EnvSchedule \/ EnvScheduleAt \/ EnvStep

SpecEnv == InitEnv /\ [][NextEnv]_vars


(***************************************************************************)
(* One uninterrupted run: reset(), then start(), then ticks for as long as *)
(* the interval is armed.  The interval timer keeps firing and a telemetry *)
(* write in progress completes, hence the weak fairness of the ticks.      *)
(***************************************************************************)
RunParams ==
  LET one == { Merge(BaseParams, p) : p \in Partials }
  IN  { BaseParams } \cup one \cup { Merge(q, p) : q \in one, p \in Partials }

InitRun ==
  /\ \E p \in RunParams : sim = ResetSimulation(NewSimulation(p))
  /\ isRunning = FALSE
  /\ intervalId = Null
  /\ writeToFoundation \in BOOLEAN
  /\ inflight \in (IF writeToFoundation THEN { 0, 1 } ELSE { 0 })
  /\ lastEvent = Event("reset", sim, FALSE)
  /\ stepped = FALSE
  /\ starts = 0
  /\ cleanRun = TRUE
  /\ ref = NewRef(sim.params)
  /\ calls = 0

RunStart == starts = 0 /\ Start

NextRun == RunStart \/ TickStep \/ TickComplete \/ TelemetryDone

SpecRun ==
  /\ InitRun
  /\ [][NextRun]_vars
  /\ WF_vars(TickStep) /\ WF_vars(TickComplete) /\ WF_vars(TelemetryDone)

(***************************************************************************)
(* Runs on configurations with a zero interarrival time or a zero          *)
(* capacity, which updateParams stores like any other.  With a zero        *)
(* interarrival time every step creates one more item at the same instant; *)
(* the ticks are followed until MaxItems items have been created.          *)
(***************************************************************************)
InvalidPartials == { [arrivalMean |-> 0], [cutterCapacity |-> 0] }

UpdateInvalid == \E newParams \in InvalidPartials : ResetTo(Merge(sim.params, newParams))

TickStepCapped == sim.nextItemId <= MaxItems /\ TickStep

NextInvalid ==
  UpdateInvalid \/ RunStart \/ TickStepCapped \/ TickComplete \/ TelemetryDone

SpecInvalid ==
  /\ Init
  /\ [][NextInvalid]_vars
  /\ WF_vars(TickStepCapped) /\ WF_vars(TickComplete) /\ WF_vars(TelemetryDone)

(***************************************************************************)
(* Runs of two congested lines, each from construction to the horizon.     *)
(***************************************************************************)
\* a packer six times slower than the stages before it: buffer-2 fills and
\* the cell stage blocks on it
SlowPackerParams ==
  Merge(BaseParams,
        [randomSeed |-> 3, arrivalMean |-> 2 * MIN, cutTime |-> 2 * MIN,
         cellTime |-> 2 * MIN, packTime |-> 12 * MIN,
         failMTBF |-> 10 * MIN, failMTTR |-> 2 * MIN])

\* all capacities 1, both buffers 5, a cell time beyond the horizon
BackPressureParams ==
  Merge(BaseParams,
        [arrivalMean |-> 2 * MIN, cutTime |-> 2 * MIN, cellTime |-> 100 * MIN,
         buf12Cap |-> 5, buf23Cap |-> 5])

ScenarioParams == { SlowPackerParams, BackPressureParams }

\* a controller just constructed with one of the configurations in P
Constructed(P) ==
  /\ \E p \in P : sim = NewSimulation(p)
  /\ isRunning = FALSE
  /\ intervalId = Null
  /\ writeToFoundation \in BOOLEAN
  /\ inflight = 0
  /\ lastEvent = Event("none", sim, FALSE)
  /\ stepped = FALSE
  /\ starts = 0
  /\ cleanRun = TRUE
  /\ ref = NewRef(sim.params)
  /\ calls = 0

SpecScenario ==
  /\ Constructed(ScenarioParams)
  /\ [][NextRun]_vars
  /\ WF_vars(TickStep) /\ WF_vars(TickComplete) /\ WF_vars(TelemetryDone)

(***************************************************************************)
(* Runs whose horizon is out of reach (a thousand hours), followed until   *)
(* MaxItems items have arrived.                                            *)
(***************************************************************************)
LongRunParams ==
  { Merge(p, [simHours |-> 10000]) : p \in { BaseParams, SlowPackerParams } }

NextLongRun == RunStart \/ TickStepCapped \/ TelemetryDone

SpecLongRun ==
  /\ Constructed(LongRunParams)
  /\ [][NextLongRun]_vars
  /\ WF_vars(TickStepCapped) /\ WF_vars(TelemetryDone)

\* every station with spare capacity: two cutters, three robots, two
\* heaters, two packers, and buffers of three
WideParams ==
  Merge(BaseParams,
        [randomSeed |-> 3, arrivalMean |-> 2 * MIN, cutTime |-> 2 * MIN,
         cellTime |-> 4 * MIN, packTime |-> 6 * MIN,
         cutterCapacity |-> 2, robotCapacity |-> 3, heaterCapacity |-> 2,
         packerCapacity |-> 2, buf12Cap |-> 3, buf23Cap |-> 3,
         failMTBF |-> 6 * MIN, failMTTR |-> 4 * MIN])

SpecCapacity ==
  /\ Constructed({ WideParams, SlowPackerParams })
  /\ [][NextRun]_vars

(***************************************************************************)
(* SessionManager: the sessions of the server, each with its own           *)
(* controller.  Controllers are objects: the manager is kept in ref as a   *)
(* heap of controllers and a map from session id to heap index.  Telemetry *)
(* writes are off, so a tick is one step.  lastEvent records the request   *)
(* served last: [type, session].                                           *)
(***************************************************************************)
SessionIds == { "a", "b" }

MapSession(sessions, sessionId, index) ==
  [t \in DOMAIN sessions \cup { sessionId } |->
     IF t = sessionId THEN index ELSE sessions[t]]

\* new FactorySimulation(params), as a controller
NewController(params) ==
  [sim |-> NewSimulation(params), isRunning |-> FALSE, intervalId |-> Null]

\* a manager that hands the first controller it made to every new session
GetOrCreateShared(M, sessionId, params) ==
  IF sessionId \in DOMAIN M.sessions THEN M
  ELSE IF M.heap # << >> THEN [M EXCEPT !.sessions = MapSession(@, sessionId, 1)]
  ELSE [sessions |-> MapSession(M.sessions, sessionId, 1),
        heap |-> << NewController(params) >>]

\* getOrCreateSession(sessionId, defaultParams)
GetOrCreateSession(M, sessionId, params) ==
  IF sessionId \in DOMAIN M.sessions THEN M
  ELSE [sessions |-> MapSession(M.sessions, sessionId, Len(M.heap) + 1),
        heap |-> Append(M.heap, NewController(params))]

\* the controller of a session
ControllerOf(M, sessionId) == M.heap[M.sessions[sessionId]]

\* reset(), updateParams(newParams) and one interval tick, as functions of
\* the controller
ResetCall(C) ==
  [sim |-> ResetSimulation(C.sim), isRunning |-> FALSE, intervalId |-> Null]

UpdateCall(C, newParams) ==
  ResetCall([C EXCEPT !.sim.params = Merge(@, newParams)])

TickCall(C) ==
  IF C.sim.now >= SimTime(C.sim)
  THEN [sim |-> Finalize(C.sim, SimTime(C.sim)), isRunning |-> FALSE, intervalId |-> Null]
  ELSE [C EXCEPT !.sim = Step(C.sim).W]

\* serve a request of sessionId: M is the manager after the session lookup,
\* C the controller after the call
Served(type, sessionId, M, C) ==
  /\ calls < MaxCalls
  /\ ref' = [M EXCEPT !.heap[M.sessions[sessionId]] = C]
  /\ lastEvent' = [type |-> type, session |-> sessionId]
  /\ calls' = calls + 1
  /\ UNCHANGED << sim, isRunning, intervalId, writeToFoundation, inflight, stepped,
                  starts, cleanRun >>

ApiStart ==
  \E s \in SessionIds :
    LET M == GetOrCreateSession(ref, s, BaseParams)
    IN  Served("start", s, M, StartCall(ControllerOf(M, s)))

ApiStop ==
  \E s \in DOMAIN ref.sessions : Served("stop", s, ref, StopCall(ControllerOf(ref, s)))

ApiReset ==
  \E s \in SessionIds :
    LET M == GetOrCreateSession(ref, s, BaseParams)
    IN  Served("reset", s, M, ResetCall(ControllerOf(M, s)))

ApiParams ==
  \E s \in SessionIds, params \in Partials :
    LET M == GetOrCreateSession(ref, s, Merge(BaseParams, params))
    IN  Served("params", s, M, UpdateCall(ControllerOf(M, s), params))

\* the interval of one session's controller fires
SessionTick ==
  \E s \in DOMAIN ref.sessions :
    /\ ControllerOf(ref, s).intervalId # Null
    /\ Served("tick", s, ref, TickCall(ControllerOf(ref, s)))

InitSessions ==
  /\ ref = [sessions |-> << >>, heap |-> << >>]
  /\ lastEvent = [type |-> "none", session |-> "none"]
  /\ calls = 0
  /\ sim = NewSimulation(BaseParams)
  /\ isRunning = FALSE
  /\ intervalId = Null
  /\ writeToFoundation = FALSE
  /\ inflight = 0
  /\ stepped = FALSE
  /\ starts = 0
  /\ cleanRun = TRUE

NextSessions == ApiStart \/ ApiStop \/ ApiReset \/ ApiParams \/ SessionTick

SpecSessions == InitSessions /\ [][NextSessions]_vars

(***************************************************************************)
(* A run in which one scheduled action raises.  step() has shifted the     *)
(* action off the queue and set the clock when the action raises; the      *)
(* promise of step() rejects, the tick ends at its first await without a   *)
(* state event, and nothing catches the rejection.  What an unhandled      *)
(* rejection does is decided by the runtime: it is reported and the        *)
(* interval keeps firing, or (the default of Node 20) it ends the process  *)
(* and no timer fires again.                                               *)
(***************************************************************************)
InjectFault ==
  /\ isRunning
  /\ calls = 0
  /\ \E dt \in Delays : sim' = Schedule(sim, dt, Cb("onFault", 0))
  /\ calls' = 1
  /\ cleanRun' = FALSE
  /\ UNCHANGED << isRunning, intervalId, writeToFoundation, inflight, lastEvent,
                  stepped, starts, ref >>

Faulty(W) == W.q # << >> /\ Head(W.q).action.k = "onFault"

TickStepOk == ~Faulty(sim) /\ TickStep

TickFault ==
  /\ intervalId # Null
  /\ sim.now < SimTime(sim)
  /\ Faulty(sim)
  /\ sim' = Step(sim).W
  /\ intervalId' \in { intervalId, Null }
  /\ UNCHANGED << isRunning, writeToFoundation, inflight, lastEvent, stepped,
                  starts, cleanRun, ref, calls >>

NextFault ==
  RunStart \/ InjectFault \/ TickStepOk \/ TickFault \/ TickComplete \/ TelemetryDone

SpecFault ==
  /\ Constructed({ BaseParams })
  /\ [][NextFault]_vars
  /\ WF_vars(TickStepOk) /\ WF_vars(TickFault) /\ WF_vars(TickComplete)
  /\ WF_vars(TelemetryDone)

(***************************************************************************)
(* Properties.                                                             *)
(***************************************************************************)
ResNames == { "cutter", "robot", "heater", "packer" }
BufNames == { "buf12", "buf23" }

\* the snapshots an observer can hold: getState() now, and the last event's
Snapshots == { GetState(sim, isRunning), lastEvent.state }

IdsOf(q) == [i \in 1..Len(q) |-> q[i].id]
UpTo(n) == [i \in 1..n |-> i]

\* C1: in every snapshot each of the four resources with capacity >= 1 has
\* 0 <= inUse <= capacity and queueLength >= 0.
ResourceBounds ==
  \A s \in Snapshots : \A r \in ResNames :
    s.resources[r].capacity >= 1 =>
      /\ 0 <= s.resources[r].inUse
      /\ s.resources[r].inUse <= s.resources[r].capacity
      /\ s.resources[r].queueLength >= 0

\* a state event shows both robots taken and an item waiting for the cutter
ResourceBoundsWitness ==
  /\ lastEvent.type = "state"
  /\ lastEvent.state.resources.robot.capacity = 2
  /\ lastEvent.state.resources.robot.inUse = 2
  /\ lastEvent.state.resources.cutter.inUse = 1
  /\ lastEvent.state.resources.cutter.queueLength >= 1

\* C2: in every snapshot each of the two buffers with capacity >= 1 holds
\* between 0 and capacity items.
BufferBounds ==
  \A s \in Snapshots : \A b \in BufNames :
    s.resources[b].capacity >= 1 =>
      /\ 0 <= s.resources[b].items
      /\ s.resources[b].items <= s.resources[b].capacity

\* a state event shows buf12 full at capacity 2 with a producer blocked on it
BufferBoundsWitness ==
  /\ lastEvent.type = "state"
  /\ lastEvent.state.resources.buf12.capacity = 2
  /\ lastEvent.state.resources.buf12.items = 2
  /\ lastEvent.state.resources.buf12.putQueue >= 1

\* C3: a resource of capacity >= 1 whose wait queue is not empty has all its
\* units in use.
QueueImpliesFull ==
  \A r \in ResNames :
    (sim[r].capacity >= 1 /\ Len(sim[r].queue) > 0) => sim[r].inUse = sim[r].capacity

\* items wait for the cutter after the cutter has been handed over at least
\* twice, and the cell waits for the robot
QueueImpliesFullWitness ==
  /\ Len(sim.cutter.queue) >= 1
  /\ Len(sim.robot.queue) >= 1
  /\ sim.nextItemId >= 4

\* C4: in a buffer of capacity >= 1, a blocked producer means the buffer is
\* full and no consumer waits; a waiting consumer means the buffer is empty.
StoreQueues ==
  \A b \in BufNames :
    sim[b].capacity >= 1 =>
      /\ Len(sim[b].putQ) > 0 => (Len(sim[b].items) = sim[b].capacity /\ Len(sim[b].getQ) = 0)
      /\ Len(sim[b].getQ) > 0 => Len(sim[b].items) = 0

\* a producer is blocked on buf12 while the packing loop waits on buf23
StoreQueuesWitness ==
  /\ Len(sim.buf12.putQ) >= 1
  /\ Len(sim.buf23.getQ) >= 1
  /\ sim.m.completed >= 1

\* C5: the waiters of a resource are granted it in the order of their
\* acquire calls, and no acquire is granted ahead of an earlier one that
\* still waits: the grants so far, followed by the waiters, are the acquire
\* calls in call order.
GrantOrder ==
  IdsOf(Only(sim.log, "onGrant")) \o IdsOf(sim.cutter.queue)
    = UpTo(Count(sim.log, "acquire"))

\* a release has handed the unit to the first of several waiters
GrantOrderWitness ==
  /\ Len(sim.cutter.queue) >= 1
  /\ \E i \in 1..(Len(sim.log) - 1) :
       sim.log[i].k = "release" /\ sim.log[i + 1].k = "onGrant"

\* C6: a buffer delivers the items in the order of the put calls, blocked
\* producers included; blocked producers are admitted, and waiting consumers
\* served, in the order in which they blocked.
DeliveryOrder ==
  LET d == Only(sim.log, "onGet")
      p == Only(sim.log, "onPut")
      b == sim.buf12
  IN  /\ \A i \in 1..Len(d) : d[i].id = i /\ d[i].arg = i
      /\ IdsOf(p) = UpTo(Len(p))
      /\ IdsOf(d) \o IdsOf(b.getQ) = UpTo(Count(sim.log, "get"))
      /\ IdsOf(p) \o [i \in 1..Len(b.putQ) |-> b.putQ[i].callback.id]
           = UpTo(Count(sim.log, "put"))
      /\ [i \in 1..Len(d) |-> d[i].arg] \o b.items
           \o [i \in 1..Len(b.putQ) |-> b.putQ[i].item]
           = UpTo(Count(sim.log, "put"))

\* a put has been delivered straight to a waiting consumer, and a get has
\* admitted a blocked producer
DeliveryOrderWitness ==
  /\ \E i \in 1..(Len(sim.log) - 1) :
       sim.log[i].k = "put" /\ sim.log[i + 1].k = "onGet"
  /\ \E i \in 1..(Len(sim.log) - 1) :
       sim.log[i].k = "get" /\ sim.log[i + 1].k = "onPut"

\* C7: step() on a non-empty queue executes exactly one pending action, one
\* whose timestamp is minimal and, among those, the one scheduled first; it
\* sets the clock to that timestamp and returns true.  On an empty queue it
\* executes nothing, leaves the clock unchanged and returns false.
StepPost ==
  LET W == Note(sim, "step", 0, 0)
  IN  IF sim.q = << >>
      THEN sim' = W /\ stepped' = FALSE
      ELSE \E i \in 1..Len(sim.q) :
             LET e == sim.q[i]
             IN  /\ \A j \in 1..Len(sim.q) :
                      \/ sim.q[j].t > e.t
                      \/ sim.q[j].t = e.t /\ sim.q[j].action.id >= e.action.id
                 /\ sim'.now = e.t
                 /\ sim'.log = Append(W.log, [k |-> "onEvent", id |-> e.action.id, arg |-> 0])
                 /\ Len(sim'.q) = Len(sim.q) - 1
                 /\ { sim'.q[j] : j \in 1..Len(sim'.q) }
                      = { sim.q[j] : j \in (1..Len(sim.q)) \ { i } }
                 /\ stepped' = TRUE

StepContract == [][EnvStep => StepPost]_vars

\* a step on the empty queue has returned false, and the last step has run
\* the earlier-scheduled of two actions with the same timestamp
StepContractWitness ==
  LET n == Len(sim.log)
  IN  /\ n >= 4
      /\ sim.log[1].k = "step"
      /\ sim.log[n - 1].k = "step"
      /\ sim.log[n].k = "onEvent"
      /\ stepped = TRUE
      /\ \E j \in 1..Len(sim.q) :
           sim.q[j].t = sim.now /\ sim.q[j].action.id > sim.log[n].id

\* C8: for any sequence of schedule(delay >= 0), scheduleAt(time) and step()
\* the clock never decreases, and it changes only in step().
ClockMonotone ==
  [][sim'.now >= sim.now /\ (sim'.now # sim.now => EnvStep)]_vars

ResetPost ==
  LET s == GetState(sim', isRunning')
      cap == [cutter |-> sim'.params.cutterCapacity, robot |-> sim'.params.robotCapacity,
              heater |-> sim'.params.heaterCapacity, packer |-> sim'.params.packerCapacity]
  IN  /\ s.time = 0
      /\ s.isRunning = FALSE
      /\ s.metrics.completed = 0
      /\ s.metrics.wip = 0
      /\ \A r \in ResNames :
           /\ s.resources[r].inUse = 0
           /\ s.resources[r].queueLength = 0
           /\ s.resources[r].capacity = cap[r]
      /\ \A b \in BufNames :
           /\ s.resources[b].items = 0
           /\ s.resources[b].getQueue = 0
           /\ s.resources[b].putQueue = 0
      /\ s.resources.robot.isFailed = FALSE
      /\ s.resources.robot.failureCount = 0
      /\ lastEvent' = [type |-> "reset", state |-> s]

ResetClean == [][Reset => ResetPost]_vars

\* a reset event is the last event while a tick that stepped before the reset
\* still awaits its telemetry write
ResetCleanWitness ==
  /\ lastEvent.type = "reset"
  /\ inflight >= 1
  /\ starts = 0
  /\ sim.now = 0


\* C11: updateParams(partial), in any state, leaves the configuration equal to
\* the previous one overridden by exactly the fields of partial, leaves the
\* controller not running, and leaves the state a controller constructed
\* with the merged configuration has.
UpdatePost(partial) ==
  /\ DOMAIN sim'.params = DOMAIN sim.params
  /\ \A f \in DOMAIN sim.params :
       sim'.params[f] = IF f \in DOMAIN partial THEN partial[f] ELSE sim.params[f]
  /\ isRunning' = FALSE
  /\ intervalId' = Null
  /\ sim' = NewSimulation(sim'.params)
  /\ GetState(sim', isRunning') = GetState(NewSimulation(sim'.params), FALSE)

UpdateMerges ==
  [][\A partial \in Partials :
       ResetTo(Merge(sim.params, partial)) => UpdatePost(partial)]_vars

\* both partials have been applied, the last one while a tick that had
\* stepped was still awaiting its telemetry write
UpdateMergesWitness ==
  /\ sim.params.buf12Cap = 2
  /\ sim.params.randomSeed = 7
  /\ sim.params.cutTime = BaseParams.cutTime
  /\ lastEvent.type = "reset"
  /\ lastEvent.state.resources.buf12.capacity = 2
  /\ inflight >= 1
  /\ ~isRunning


\* C12: a started run whose driver keeps ticking and that is not interrupted
\* eventually reaches the horizon, where the controller stops itself and
\* emits a complete event.
Completed ==
  /\ ~isRunning
  /\ intervalId = Null
  /\ sim.now >= SimTime(sim)
  /\ lastEvent.type = "complete"

Termination == isRunning ~> Completed

\* a run has completed after finishing items and after a robot failure
TerminationWitness ==
  /\ Completed
  /\ starts = 1
  /\ sim.m.completed >= 2
  /\ sim.failureCount >= 1


\* C13: in reset(), start() and nothing else but ticks, a complete event is
\* emitted at most once (C12: and at least once), by a tick of the running
\* controller that stops it; its snapshot has isRunning = false and a time at
\* or past the horizon; and that tick executes no simulation action: clock,
\* event queue, generator and line are untouched, the metrics only finalized.
CompletePost ==
  /\ isRunning /\ ~isRunning'
  /\ intervalId' = Null
  /\ lastEvent'.type = "complete"
  /\ lastEvent'.state = GetState(sim', FALSE)
  /\ lastEvent'.state.isRunning = FALSE
  /\ lastEvent'.state.time >= SimTime(sim')
  /\ stepped' = stepped
  /\ [sim' EXCEPT !.m = sim.m] = sim
  /\ [sim'.m EXCEPT !.accum = sim.m.accum, !.area = sim.m.area] = sim.m

CompleteOnce ==
  [][(TickComplete \/ (lastEvent'.type = "complete" /\ lastEvent' # lastEvent))
       => CompletePost]_vars

\* the run has completed with events still pending, one of them already due
CompleteOnceWitness ==
  /\ lastEvent.type = "complete"
  /\ lastEvent.state.time >= SimTime(sim)
  /\ Len(sim.q) >= 3
  /\ sim.q[1].t <= sim.now
  /\ starts = 1
  /\ intervalId = Null


\* C14: start() on a running controller is a no-op: clock, event queue,
\* generators and loops, resources, buffers, metrics, the running flag and
\* the interval are what they were.
StartIdempotent == isRunning => StartCall(Ctl) = Ctl

\* a running controller in mid-run, with a failed robot and items in process
StartIdempotentWitness ==
  /\ isRunning
  /\ intervalId # Null
  /\ sim.now > 0
  /\ sim.isRobotFailed
  /\ sim.m.wip >= 2
  /\ Len(sim.q) >= 3

\* C15: stop() on a running controller clears isRunning and the interval and
\* leaves clock, event queue, resources, buffers, failure state and metrics
\* as they were; stop() on a controller that is not running changes nothing.
StopFrame ==
  /\ StopCall(Ctl).sim = sim
  /\ StopCall(Ctl).isRunning = FALSE
  /\ StopCall(Ctl).intervalId = Null
  /\ ~isRunning => StopCall(Ctl) = Ctl

StopOnlyHalts == []StopFrame /\ [][Stop => (sim' = sim /\ lastEvent' = lastEvent)]_vars

\* a controller stopped in mid-run: events pending, items in process
StopOnlyHaltsWitness ==
  /\ ~isRunning
  /\ intervalId = Null
  /\ starts = 1
  /\ ~cleanRun
  /\ lastEvent.type = "state"
  /\ sim.now < SimTime(sim)
  /\ Len(sim.q) >= 3
  /\ sim.m.wip >= 2
  /\ sim.cutter.inUse = 1


\* every callback that is pending: scheduled in the event queue, waiting for
\* a resource, waiting for an item, or blocked with an item on a full buffer
PendingCallbacks(W) ==
  [i \in 1..Len(W.q) |-> W.q[i].action]
    \o W.cutter.queue \o W.robot.queue \o W.heater.queue \o W.packer.queue
    \o W.buf12.getQ \o W.buf23.getQ
    \o [i \in 1..Len(W.buf12.putQ) |-> W.buf12.putQ[i].callback]
    \o [i \in 1..Len(W.buf23.putQ) |-> W.buf23.putQ[i].callback]

CountOf(cbs, kinds) == Cardinality({ i \in 1..Len(cbs) : cbs[i].k \in kinds })

Scheduled(W, kinds) ==
  Cardinality({ i \in 1..Len(W.q) : W.q[i].action.k \in kinds })

Occurrences(q, e) == Cardinality({ i \in 1..Len(q) : q[i] = e })

\* C16: a start() after a stop() (or after a completed run) without a reset
\* keeps the pending events and registers one more arrival generator, failure
\* generator, cell loop and pack loop on the same line: the line carries as
\* many of each as there were effective start() calls since the last reset,
\* each arrival generator with its own arrival event outstanding.
GeneratorsPerStart ==
  /\ Scheduled(sim, { "arrival" }) = starts
  /\ CountOf(PendingCallbacks(sim), { "failure", "repairGranted", "repairDone" }) = starts
  /\ CountOf(PendingCallbacks(sim),
             { "cellGet", "robotGranted", "heaterGranted", "cellDone", "cellPut" }) = starts
  /\ CountOf(PendingCallbacks(sim), { "packGet", "packerGranted", "packDone" }) = starts

QueueKept ==
  /\ sim'.now = sim.now
  /\ \A i \in 1..Len(sim.q) : Occurrences(sim'.q, sim.q[i]) >= Occurrences(sim.q, sim.q[i])

DuplicateGenerators ==
  []GeneratorsPerStart /\ [][(Start /\ ~isRunning) => QueueKept]_vars

\* a second run on the same line: two arrival events and two failure/repair
\* cycles outstanding, the clock past the first failure
DuplicateGeneratorsWitness ==
  /\ starts = 2
  /\ isRunning
  /\ Scheduled(sim, { "arrival" }) = 2
  /\ Scheduled(sim, { "failure", "repairDone" }) = 2
  /\ CountOf(sim.buf12.getQ \o sim.robot.queue, { "cellGet", "robotGranted" }) >= 1
  /\ sim.failureCount >= 1
  /\ sim.m.completed >= 1


\* the items in process: those a pending callback carries and those stored
ItemKinds ==
  { "cutGranted", "cutDone", "cutPut", "robotGranted", "heaterGranted",
    "cellDone", "cellPut", "packerGranted", "packDone" }

ItemsInProcess(W) ==
  IdsOf(SelectSeq(PendingCallbacks(W), LAMBDA c : c.k \in ItemKinds))
    \o W.buf12.items \o W.buf23.items

\* C17: reset() discards all pending work: right after it nothing is
\* scheduled and nothing waits in a resource or buffer queue, so what runs
\* later was registered after the reset: every item in process was created
\* since the last reset (its id is below nextItemId) and is carried once.
NoStaleWork ==
  LET ids == ItemsInProcess(sim)
  IN  /\ \A i \in 1..Len(ids) : 1 <= ids[i] /\ ids[i] < sim.nextItemId
      /\ \A i, j \in 1..Len(ids) : ids[i] = ids[j] => i = j

ResetDiscards ==
  /\ []NoStaleWork
  /\ [][(Reset \/ UpdateParams) => PendingCallbacks(sim') = << >>]_vars

\* a run started after a reset that interrupted a stepping run: the tick
\* still awaiting its telemetry write stepped before the reset (the clock is
\* 0), and only the new arrival and failure events are scheduled
ResetDiscardsWitness ==
  /\ isRunning
  /\ starts = 1
  /\ inflight >= 1
  /\ sim.now = 0
  /\ lastEvent.type = "reset"
  /\ Len(sim.q) = 2
  /\ Len(PendingCallbacks(sim)) = 4


\* C18: updateParams with a non-positive time value or capacity is rejected:
\* the stored configuration and the simulation state stay as they were.
InvalidRejected ==
  [][UpdateInvalid => (sim'.params = sim.params /\ sim' = sim /\ isRunning' = isRunning)]_vars

FailureHoldsRobot ==
  LET robot == GetState(sim, isRunning).resources.robot
  IN  (sim.params.robotCapacity = 1 /\ starts <= 1 /\ robot.isFailed)
        => (robot.inUse = 1 /\ robot.inUse = robot.capacity)

\* the robot is failed and held by the repair alone: no item waits for it and
\* the cell loop waits for a part
FailureHoldsRobotWitness ==
  /\ sim.params.robotCapacity = 1
  /\ starts = 1
  /\ sim.isRobotFailed
  /\ sim.robot.inUse = 1
  /\ Len(sim.robot.queue) = 0
  /\ CountOf(sim.buf12.getQ, { "cellGet" }) = 1
  /\ Scheduled(sim, { "repairDone" }) = 1


\* C21: cutter back-pressure.  A cutter unit taken for an item is given back
\* only by the callback of that item's put into buffer-1, so every unit in
\* use belongs to an item being cut or to a producer blocked on buffer-1:
\* blocked producers <= cutter.inUse <= cutterCapacity, and while buffer-1 is
\* full with cutterCapacity producers blocked no item is being cut.
CutterBackPressure ==
  /\ Len(sim.buf12.putQ) <= sim.cutter.inUse
  /\ sim.cutter.inUse <= sim.params.cutterCapacity
  /\ sim.cutter.inUse = Scheduled(sim, { "cutDone" }) + Len(sim.buf12.putQ)
  /\ CountOf(PendingCallbacks(sim), { "cutPut" }) = Len(sim.buf12.putQ)
  /\ (Len(sim.buf12.items) = sim.buf12.capacity
        /\ Len(sim.buf12.putQ) = sim.params.cutterCapacity)
       => Scheduled(sim, { "cutDone" }) = 0

\* buffer-1 is full, a producer is blocked on it holding the only cutter
\* unit, and a further item waits for the cutter
CutterBackPressureWitness ==
  /\ Len(sim.buf12.items) = sim.buf12.capacity
  /\ Len(sim.buf12.putQ) = sim.params.cutterCapacity
  /\ sim.cutter.inUse = sim.params.cutterCapacity
  /\ Len(sim.cutter.queue) >= 1


\* C22: the cell stage takes the robot before the heater and gives both back
\* only in the callback of the part's put into buffer-2: a producer blocked
\* on buffer-2 implies robot.inUse >= 1 and heater.inUse >= 1, and nothing
\* holds the heater while it waits for the robot (the heater's holders are
\* parts in process or blocked on buffer-2, each holding a robot unit too;
\* what waits for the robot is a part without the heater, or the repair).
CellHoldsBoth ==
  /\ Len(sim.buf23.putQ) > 0 => (sim.robot.inUse >= 1 /\ sim.heater.inUse >= 1)
  /\ sim.heater.inUse = Scheduled(sim, { "cellDone" }) + Len(sim.buf23.putQ)
  /\ sim.robot.inUse = Len(sim.heater.queue) + sim.heater.inUse
                         + Scheduled(sim, { "repairDone" })
  /\ CountOf(sim.robot.queue, { "robotGranted", "repairGranted" }) = Len(sim.robot.queue)
  /\ CountOf(sim.heater.queue, { "heaterGranted" }) = Len(sim.heater.queue)
  /\ CountOf(PendingCallbacks(sim), { "cellPut" }) = Len(sim.buf23.putQ)

\* a part is blocked on the full buffer-2 holding robot and heater while the
\* repair of a failure waits for the robot
CellHoldsBothWitness ==
  /\ Len(sim.buf23.putQ) >= 1
  /\ Len(sim.buf23.items) = sim.buf23.capacity
  /\ sim.robot.inUse >= 1
  /\ sim.heater.inUse >= 1
  /\ Len(sim.robot.queue) >= 1


\* what a waiting process waits for is held by a process further down the
\* line that is not waiting for anything upstream: packer < buffer-2 <
\* heater < robot < buffer-1 < cutter
BlockedBehind(W) ==
  LET cutting   == Scheduled(W, { "cutDone" })
      inCell    == Scheduled(W, { "cellDone" })
      repairing == Scheduled(W, { "repairDone" })
      packing   == Scheduled(W, { "packDone" })
      on23      == Len(W.buf23.putQ)
      onHeater  == Len(W.heater.queue)
      onRobot   == CountOf(W.robot.queue, { "robotGranted" })
  IN  /\ Len(W.packer.queue) > 0 => packing >= 1
      /\ (on23 > 0 \/ Len(W.buf23.items) > 0) => packing >= 1
      /\ onHeater > 0 => inCell + on23 >= 1
      /\ Len(W.robot.queue) > 0 => inCell + on23 + onHeater + repairing >= 1
      /\ (Len(W.buf12.putQ) > 0 \/ Len(W.buf12.items) > 0)
           => inCell + on23 + onHeater + onRobot >= 1
      /\ Len(W.cutter.queue) > 0 => cutting + Len(W.buf12.putQ) >= 1

Truncated == sim.nextItemId > MaxItems

\* items whose completion falls before the end of the runs followed
DrainedItems == 1..2

Saturated(state) ==
  /\ state.resources.buf12.utilization.num = state.resources.buf12.utilization.den
  /\ state.resources.cutter.queueLength > 0

\* items whose cut has ended
CutsDone(W) == (W.nextItemId - 1) - Len(W.cutter.queue) - Scheduled(W, { "cutDone" })

\* C24: upstream back-pressure (all capacities 1, both buffers 5, a cell time
\* beyond the horizon): buffer-2 holds no item in any snapshot; once eight
\* items have arrived and seven cuts have ended the snapshot shows buffer-1
\* utilization 1.0 with a non-empty cutter queue, that condition persists
\* from step to step, and the snapshot of the complete event still shows it.
UpstreamBackPressure ==
  /\ [](sim.params = BackPressureParams
          => /\ \A s \in Snapshots : s.resources.buf23.items = 0
             /\ (sim.nextItemId > 8 /\ CutsDone(sim) >= 7)
                  => Saturated(GetState(sim, isRunning))
             /\ (lastEvent.type = "complete" /\ sim.nextItemId > 8)
                  => Saturated(lastEvent.state))
  /\ [][(sim.params = BackPressureParams /\ Saturated(GetState(sim, isRunning)))
          => Saturated(GetState(sim', isRunning'))]_vars

\* the back-pressure line before its horizon: buffer-1 full, the seventh item
\* blocked on it holding the cutter, the eighth waiting for the cutter, the
\* first still in the cell
UpstreamBackPressureWitness ==
  /\ sim.params = BackPressureParams
  /\ isRunning
  /\ sim.now < SimTime(sim)
  /\ sim.nextItemId > 8
  /\ CutsDone(sim) = 7
  /\ Len(sim.buf12.putQ) = 1
  /\ Scheduled(sim, { "cellDone" }) = 1
  /\ Saturated(GetState(sim, isRunning))
  /\ lastEvent.type = "state" /\ Saturated(lastEvent.state)


\* C25: once a run has completed and the metrics are finalized at the horizon
\* H, the accumulated time-weighted WIP integral equals the integral of the
\* WIP counter over [0, H], also when the last event executed lies past H.
WipIntegralExact ==
  [][(TickComplete /\ starts = 1) => sim'.m.accum = sim'.m.area]_vars


\* C26: item accounting.  Item ids are unique; the live entry-timestamp
\* records are exactly the items that have arrived and are not yet complete
\* (those in process on the line); the WIP counter equals arrivals minus
\* completions, which is the number of live records and never negative; every
\* completion found its record (one cycle time per completion), so the clamp
\* of the WIP counter at zero never changes the result.
ItemAccounting ==
  LET live == IdsOf(sim.m.enterTimes)
      ids  == ItemsInProcess(sim)
  IN  /\ \A i, j \in 1..Len(live) : live[i] = live[j] => i = j
      /\ \A i, j \in 1..Len(ids) : ids[i] = ids[j] => i = j
      /\ { live[i] : i \in 1..Len(live) } = { ids[i] : i \in 1..Len(ids) }
      /\ sim.m.wip = (sim.nextItemId - 1) - sim.m.completed
      /\ sim.m.wip = Len(live)
      /\ sim.m.wip >= 0
      /\ Len(sim.m.cycleTimes) = sim.m.completed
      /\ \A i \in 1..Len(sim.q) :
           sim.q[i].action.k = "packDone" => MapHas(sim.m.enterTimes, sim.q[i].action.id)

\* a second run on the same line: items completed, several live, one of them
\* about to complete
ItemAccountingWitness ==
  /\ starts = 2
  /\ sim.m.completed >= 2
  /\ sim.m.wip >= 3
  /\ Scheduled(sim, { "packDone" }) >= 1
  /\ Len(sim.buf12.items) >= 1


\* a simulation between two actions: every continuation handed off through
\* release, put or get has run (no unit, item or space is left with a waiter
\* still queued for it, and every unit in use has its holder at work)
BetweenActions(W) ==
  /\ \A r \in ResNames : Len(W[r].queue) > 0 => W[r].inUse >= W[r].capacity
  /\ \A b \in BufNames :
       /\ Len(W[b].getQ) > 0 => Len(W[b].items) = 0
       /\ Len(W[b].putQ) > 0 => Len(W[b].items) >= W[b].capacity
  /\ W.cutter.inUse = Scheduled(W, { "cutDone" }) + Len(W.buf12.putQ)
  /\ W.heater.inUse = Scheduled(W, { "cellDone" }) + Len(W.buf23.putQ)
  /\ W.robot.inUse = Len(W.heater.queue) + W.heater.inUse + Scheduled(W, { "repairDone" })
  /\ W.packer.inUse = Scheduled(W, { "packDone" })

\* a step ran the head of the queue and nothing else: the clock is the
\* head's time and every other event that was queued is still queued
OnlyHeadRan ==
  /\ sim'.now = Head(sim.q).t
  /\ \A i \in 2..Len(sim.q) :
       Occurrences(sim'.q, sim.q[i]) >= Occurrences(Tail1(sim.q), sim.q[i])

SessionsIsolated ==
  /\ [](\A s, t \in DOMAIN ref.sessions : s # t => ref.sessions[s] # ref.sessions[t])
  /\ [][\A t \in DOMAIN ref.sessions :
          t # lastEvent'.session
            => (t \in DOMAIN ref'.sessions /\ ControllerOf(ref', t) = ControllerOf(ref, t))]_vars

\* two sessions created from the same defaults: one has been given other
\* parameters and is stopped at time 0, the other is running with its clock
\* advanced
SessionsIsolatedWitness ==
  /\ DOMAIN ref.sessions = SessionIds
  /\ ControllerOf(ref, "a").sim.params # BaseParams
  /\ ~ControllerOf(ref, "a").isRunning
  /\ ControllerOf(ref, "b").sim.params = BaseParams
  /\ ControllerOf(ref, "b").isRunning
  /\ ControllerOf(ref, "b").sim.now > 0
  /\ lastEvent.session = "a"


\* a state event is emitted: by a tick right after its step, or by a tick
\* that resumes after its telemetry write
EmitsState == (TickStep /\ ~writeToFoundation) \/ TelemetryDone

\* C29: state notifications are emitted only while running: every driven
\* step is followed by its state event, and no state event is emitted once
\* the controller has stopped (after stop() or reset() has returned, or after
\* the complete event), however the ticks interleave with lifecycle calls and
\* with each other.
StateOnlyWhileRunning ==
  [][EmitsState => (isRunning /\ lastEvent'.type = "state" /\ lastEvent'.state.isRunning)]_vars


\* C30: fault isolation.  When the action run by step() raises, the other
\* pending actions stay queued in their order, none lost and none twice, and
\* the driver goes on ticking: the clock keeps being stepped and the other
\* items' actions keep being processed.
FaultIsolated ==
  [][TickFault => (sim'.q = Tail1(sim.q) /\ isRunning' /\ intervalId' # Null)]_vars


\* the units of a resource that a pending continuation will give back
Holders(W, r) ==
  CASE r = "cutter" -> Scheduled(W, { "cutDone" }) + Len(W.buf12.putQ)
    [] r = "robot"  -> Len(W.heater.queue) + Scheduled(W, { "cellDone", "repairDone" })
                         + Len(W.buf23.putQ)
    [] r = "heater" -> Scheduled(W, { "cellDone" }) + Len(W.buf23.putQ)
    [] r = "packer" -> Scheduled(W, { "packDone" })

\* C31: resource hand-off, at every state the line reaches.  acquire runs its
\* continuation at once and increments inUse iff inUse < capacity, and
\* otherwise only appends the continuation to the wait queue; release with
\* waiters leaves inUse as it is, removes the first waiter and runs it within
\* the call; release without waiters decrements inUse by one.  release is
\* never called with inUse = 0, and inUse is the number of holders that have
\* been granted a unit and have not released it yet.
ResourceHandOff ==
  \A r \in ResNames :
    LET A == Acquire(sim, r, Cb("onGrant", 0))
        R == Release(sim, r)
    IN  /\ IF sim[r].inUse < sim[r].capacity
           THEN A = Note([sim EXCEPT ![r].inUse = @ + 1], "onGrant", 0, 0)
           ELSE A = [sim EXCEPT ![r].queue = Append(@, Cb("onGrant", 0))]
        /\ IF sim[r].queue # << >>
           THEN /\ R[r].inUse = sim[r].inUse
                /\ R[r].queue = Tail1(sim[r].queue)
                /\ R = Call([sim EXCEPT ![r].queue = Tail1(@)], Head(sim[r].queue), 0)
                /\ R # [sim EXCEPT ![r].queue = Tail1(@)]
           ELSE sim[r].inUse > 0 => R = [sim EXCEPT ![r].inUse = @ - 1]
        /\ Count(sim.log, "underflow") = 0
        /\ sim[r].inUse = Holders(sim, r)

\* a line on which units are held and waited for: the cutter is busy with
\* items queued behind it, a part holds the robot and waits for the heater's
\* turn or is in the cell, and items have completed (the packer was released)
ResourceHandOffWitness ==
  /\ sim.cutter.inUse = sim.cutter.capacity
  /\ Len(sim.cutter.queue) >= 2
  /\ sim.robot.inUse >= 1
  /\ Len(sim.robot.queue) >= 1
  /\ sim.packer.inUse = 0
  /\ sim.m.completed >= 2


\* what the n-th put of the driver leaves behind
PutPost ==
  LET b == sim.buf12
      n == Count(sim.log, "put") + 1
      W == Note(sim, "put", n, 0)
  IN  IF b.getQ # << >>
      THEN sim' = Note(Note([W EXCEPT !.buf12.getQ = Tail1(@)],
                            "onGet", Head(b.getQ).id, n), "onPut", n, 0)
      ELSE IF Len(b.items) < b.capacity
      THEN sim' = Note([W EXCEPT !.buf12.items = Append(@, n)], "onPut", n, 0)
      ELSE sim' = [W EXCEPT !.buf12.putQ =
                               Append(@, [item |-> n, callback |-> Cb("onPut", n)])]

\* what the n-th get of the driver leaves behind
GetPost ==
  LET b == sim.buf12
      n == Count(sim.log, "get") + 1
      W == Note(sim, "get", n, 0)
  IN  IF b.items = << >>
      THEN sim' = [W EXCEPT !.buf12.getQ = Append(@, Cb("onGet", n))]
      ELSE IF b.putQ = << >>
      THEN sim' = Note([W EXCEPT !.buf12.items = Tail1(@)], "onGet", n, Head(b.items))
      ELSE /\ sim' = Note(Note([W EXCEPT !.buf12.items =
                                            Append(Tail1(@), Head(b.putQ).item),
                                          !.buf12.putQ = Tail1(@)],
                               "onPut", Head(b.putQ).callback.id, 0),
                          "onGet", n, Head(b.items))
           /\ Len(sim'.buf12.items) = b.capacity

\* every item put is in exactly one place: delivered, stored, or blocked
EachItemOnce ==
  LET d   == Only(sim.log, "onGet")
      b   == sim.buf12
      all == [i \in 1..Len(d) |-> d[i].arg] \o b.items
               \o [i \in 1..Len(b.putQ) |-> b.putQ[i].item]
  IN  /\ Len(all) = Count(sim.log, "put")
      /\ \A n \in 1..Count(sim.log, "put") :
           Cardinality({ i \in 1..Len(all) : all[i] = n }) = 1

\* C32: buffer hand-off.  A put with a waiting consumer gives that item to
\* the first waiting consumer, leaves the stored items as they are and runs
\* the producer's continuation in the same call; a put below capacity stores
\* the item and runs the continuation; a put on a full buffer only enqueues
\* the producer.  A get on a non-empty buffer delivers the oldest item and,
\* if a producer is blocked, admits the first blocked producer's item (the
\* buffer stays full) and runs its continuation; a get on an empty buffer
\* only enqueues the consumer.  No item is lost or delivered twice.
BufferHandOff ==
  /\ []EachItemOnce
  /\ [][StorePut => PutPost]_vars
  /\ [][StoreGet => GetPost]_vars

\* items have been delivered, one straight to a waiting consumer; a get has
\* admitted a blocked producer, and a producer is blocked on the full buffer
BufferHandOffWitness ==
  /\ Count(sim.log, "onGet") >= 2
  /\ \E i \in 1..(Len(sim.log) - 1) :
       sim.log[i].k = "put" /\ sim.log[i + 1].k = "onGet"
  /\ \E i \in 1..(Len(sim.log) - 2) :
       sim.log[i].k = "get" /\ sim.log[i + 1].k = "onPut" /\ sim.log[i + 2].k = "onGet"
  /\ Len(sim.buf12.items) = sim.buf12.capacity


\* the kind of the action the next step runs
HeadKind(W) == IF W.q = << >> THEN "none" ELSE Head(W.q).action.k

\* the failure process of a line started once: one failure cycle, which is
\* either waiting to fire or, failed, waiting for the robot or in repair
OneFailureCycle ==
  /\ Scheduled(sim, { "failure" }) + CountOf(sim.robot.queue, { "repairGranted" })
       + Scheduled(sim, { "repairDone" }) = starts
  /\ sim.isRobotFailed
       <=> (CountOf(sim.robot.queue, { "repairGranted" })
              + Scheduled(sim, { "repairDone" }) = 1)
  /\ (sim.failureCount = 0) <=> (sim.lastFailureTime = Null)
  /\ sim.isRobotFailed => sim.failureCount >= 1

\* what a step may do to the failure state
FailureStep ==
  /\ sim'.failureCount # sim.failureCount
       => /\ HeadKind(sim) = "failure"
          /\ ~sim.isRobotFailed /\ sim'.isRobotFailed
          /\ sim'.failureCount = sim.failureCount + 1
          /\ sim'.lastFailureTime = sim'.now
          /\ Scheduled(sim', { "failure" }) = 0
  /\ HeadKind(sim) = "failure" => sim'.failureCount = sim.failureCount + 1
  /\ (sim.isRobotFailed /\ ~sim'.isRobotFailed)
       => /\ HeadKind(sim) = "repairDone"
          /\ Scheduled(sim', { "failure" }) = 1
          /\ Holders(sim', "robot") = sim'.robot.inUse
          /\ Scheduled(sim', { "repairDone" }) = 0
  /\ sim'.lastFailureTime # sim.lastFailureTime => sim'.failureCount # sim.failureCount

\* C33: the failure/repair cycle of a line started once.  At most one failure
\* is outstanding; a firing sets isFailed, adds exactly 1 to failureCount and
\* records lastFailureTime = now; the next failure is scheduled only when the
\* repair completes, so failureCount does not change while isFailed holds;
\* isFailed is cleared only by the repair-completion action, which also gives
\* the robot back; failureCount = 0 iff lastFailureTime is null.
FailureCycle ==
  /\ [](starts <= 1 => OneFailureCycle)
  /\ [][(TickStep /\ starts <= 1) => FailureStep]_vars

\* the second failure of a run is being repaired
FailureCycleWitness ==
  /\ starts = 1
  /\ sim.failureCount >= 2
  /\ sim.isRobotFailed
  /\ Scheduled(sim, { "repairDone" }) = 1
  /\ Scheduled(sim, { "failure" }) = 0
  /\ sim.lastFailureTime > 0


\* the parts that hold a robot unit: waiting for the heater, in the cell, or
\* blocked on buffer-2
PartsOnRobot(W) ==
  IdsOf(W.heater.queue)
    \o IdsOf(SelectSeq([i \in 1..Len(W.q) |-> W.q[i].action], LAMBDA c : c.k = "cellDone"))
    \o [i \in 1..Len(W.buf23.putQ) |-> W.buf23.putQ[i].item]

\* a failure fires: the parts holding the robot keep it, and with no unit
\* free the repair joins the end of the robot's queue
FailureWaitsItsTurn ==
  /\ PartsOnRobot(sim') = PartsOnRobot(sim)
  /\ IF sim.robot.inUse >= sim.robot.capacity
     THEN /\ sim'.robot.queue = Append(sim.robot.queue, Cb("repairGranted", 0))
          /\ sim'.robot.inUse = sim.robot.inUse
          /\ Scheduled(sim', { "repairDone" }) = Scheduled(sim, { "repairDone" })
     ELSE /\ sim'.robot.queue = sim.robot.queue
          /\ sim'.robot.inUse = sim.robot.inUse + 1
          /\ Scheduled(sim', { "repairDone" }) = Scheduled(sim, { "repairDone" }) + 1

\* C34: repair is non-preemptive and exclusive.  A part that holds the robot
\* when a failure fires keeps it (until the callback of its put into
\* buffer-2 releases it); the repair waits at the end of the robot's FIFO
\* queue like any waiter; with robotCapacity = 1 no part is in cell
\* processing while the repair holds the robot.
RepairExclusive ==
  /\ [](sim.params.robotCapacity = 1
          => ~(Scheduled(sim, { "repairDone" }) >= 1 /\ PartsOnRobot(sim) # << >>))
  /\ [](\A i \in 1..Len(sim.robot.queue) :
          sim.robot.queue[i].k = "repairGranted" => sim.robot.inUse >= sim.robot.capacity)
  /\ [][(TickStep /\ HeadKind(sim) = "failure") => FailureWaitsItsTurn]_vars
  /\ [][(TickStep /\ HeadKind(sim) # "cellDone" /\ HeadKind(sim) # "packDone")
          => \A i \in 1..Len(PartsOnRobot(sim)) :
               \E j \in 1..Len(PartsOnRobot(sim')) :
                 PartsOnRobot(sim')[j] = PartsOnRobot(sim)[i]]_vars

\* a failure has fired while a part was in the cell: the part is still in
\* the cell with the only robot unit and the repair waits in the queue
RepairExclusiveWitness ==
  /\ sim.params.robotCapacity = 1
  /\ sim.isRobotFailed
  /\ sim.robot.queue = << Cb("repairGranted", 0) >>
  /\ Scheduled(sim, { "cellDone" }) = 1
  /\ Scheduled(sim, { "repairDone" }) = 0
  /\ sim.robot.inUse = 1


\* how far item id has come on the line W: 0 not arrived, 1 waiting for the
\* cutter, 2 being cut, 3 blocked on buffer-1, 4 in buffer-1, 5 waiting for
\* the robot, 6 waiting for the heater, 7 in the cell, 8 blocked on buffer-2,
\* 9 in buffer-2, 10 waiting for the packer, 11 being packed, 12 complete
StageOfKind(k) ==
  CASE k = "cutGranted" -> 1 [] k = "cutDone" -> 2 [] k = "cutPut" -> 3
    [] k = "robotGranted" -> 5 [] k = "heaterGranted" -> 6 [] k = "cellDone" -> 7
    [] k = "cellPut" -> 8 [] k = "packerGranted" -> 10 [] k = "packDone" -> 11
    [] OTHER -> 0

StageOf(W, id) ==
  LET cbs == SelectSeq(PendingCallbacks(W), LAMBDA c : c.k \in ItemKinds /\ c.id = id)
  IN  IF id >= W.nextItemId THEN 0
      ELSE IF cbs # << >> THEN StageOfKind(cbs[1].k)
      ELSE IF \E i \in 1..Len(W.buf12.items) : W.buf12.items[i] = id THEN 4
      ELSE IF \E i \in 1..Len(W.buf23.items) : W.buf23.items[i] = id THEN 9
      ELSE 12

\* one action moves an item forward only, never past the cut, the cell or
\* the packing, and completes it only out of the packing
StagesInOrder ==
  \A id \in 1..(sim'.nextItemId - 1) :
    LET s == StageOf(sim, id)
        t == StageOf(sim', id)
    IN  /\ s <= t
        /\ s < 2 => t <= 2
        /\ s < 7 => t <= 7
        /\ s < 11 => t <= 11

\* the step of a pack completion records one sample, the clock minus the
\* arrival time of the item; any other step records none
SampleRecorded ==
  IF HeadKind(sim) = "packDone"
  THEN LET id == Head(sim.q).action.id
       IN  /\ sim'.m.completed = sim.m.completed + 1
           /\ sim'.m.cycleTimes
                = Append(sim.m.cycleTimes, sim'.now - MapGet(sim.m.enterTimes, id))
           /\ StageOf(sim, id) = 11 /\ StageOf(sim', id) = 12
  ELSE /\ sim'.m.completed = sim.m.completed
       /\ sim'.m.cycleTimes = sim.m.cycleTimes

\* the step of an arrival records the clock as the arrival time of the new item
ArrivalRecorded ==
  HeadKind(sim) = "arrival"
    => /\ sim'.nextItemId = sim.nextItemId + 1
       /\ MapHas(sim'.m.enterTimes, sim.nextItemId)
       /\ MapGet(sim'.m.enterTimes, sim.nextItemId) = sim'.now

\* C35: the completed counter equals the number of cycle-time samples; each
\* sample is the clock at the item's finish minus the clock at its arrival
\* and is not negative; an item is marked complete at most once, and only
\* after it was cut, put through buffer-1, cell-processed, put through
\* buffer-2 and packed, in that order.
CycleTimesExact ==
  /\ [](/\ sim.m.completed = Len(sim.m.cycleTimes)
        /\ \A i \in 1..Len(sim.m.cycleTimes) : sim.m.cycleTimes[i] >= 0
        /\ \A i \in 1..Len(sim.m.enterTimes) : sim.m.enterTimes[i].t <= sim.now)
  /\ [][TickStep => (StagesInOrder /\ SampleRecorded /\ ArrivalRecorded)]_vars

\* two items are complete, the second one after a longer stay than the
\* first, and a third one is being packed
CycleTimesExactWitness ==
  /\ sim.m.completed = 2
  /\ Len(sim.m.cycleTimes) = 2
  /\ sim.m.cycleTimes[2] > sim.m.cycleTimes[1]
  /\ sim.m.cycleTimes[1] > 0
  /\ Scheduled(sim, { "packDone" }) = 1


ArrivalAlwaysPending ==
  /\ [](starts = 1 => (Scheduled(sim, { "arrival" }) = 1 /\ Len(sim.q) >= 1))
  /\ [][(TickStep /\ starts = 1)
          => /\ stepped'
             /\ Len(sim'.q) >= 1
             /\ sim'.now = Head(sim.q).t
             /\ (HeadKind(sim) = "arrival"
                   => \E i \in 1..Len(sim'.q) :
                        sim'.q[i].action.k = "arrival" /\ sim'.q[i].t >= sim'.now)]_vars

\* a step of a run started once has just run the arrival of the third
\* item, and the next arrival is scheduled for a later time
ArrivalAlwaysPendingWitness ==
  /\ starts = 1
  /\ stepped
  /\ sim.nextItemId = 4
  /\ MapHas(sim.m.enterTimes, 3)
  /\ MapGet(sim.m.enterTimes, 3) = sim.now
  /\ \E i \in 1..Len(sim.q) : sim.q[i].action.k = "arrival" /\ sim.q[i].t > sim.now

\* no event is executed: the clock, the pending events and the item
\* counters are as before
NothingExecuted ==
  /\ QueueKept
  /\ sim'.nextItemId = sim.nextItemId
  /\ sim'.m.completed = sim.m.completed
  /\ sim'.failureCount = sim.failureCount

\* C38: horizon check.  A tick executes a step only if the clock is below
\* the horizon when the tick starts, so the clock passes the horizon with
\* one executed action at most, and once it is at or past the horizon no
\* action is executed until a reset; a start() without a reset at such a
\* clock arms the driver, executes no action, and its first tick emits
\* complete.
HorizonCheck ==
  /\ [][(sim'.now # sim.now /\ ~(Reset \/ UpdateParams))
          => (sim.now < SimTime(sim) /\ sim'.now = Head(sim.q).t)]_vars
  /\ [][(sim.now >= SimTime(sim) /\ ~(Reset \/ UpdateParams)) => NothingExecuted]_vars
  /\ [][(Start /\ ~isRunning /\ sim.now >= SimTime(sim))
          => (isRunning' /\ intervalId' # Null /\ lastEvent' = lastEvent)]_vars
  /\ [][(sim.now >= SimTime(sim) /\ intervalId # Null
           /\ ~(Start \/ Stop \/ Reset \/ UpdateParams \/ TelemetryDone))
          => (lastEvent'.type = "complete" /\ ~isRunning' /\ intervalId' = Null)]_vars

\* a run was completed and then started again without a reset: the driver is
\* armed with the clock at the horizon, its first tick still to come
HorizonCheckWitness ==
  /\ starts = 2
  /\ isRunning
  /\ intervalId # Null
  /\ sim.now >= SimTime(sim)
  /\ lastEvent.type = "complete"
  /\ Scheduled(sim, { "arrival" }) = 2


\* where item id stands among the items of its stage: its index in the
\* cutter's queue or in the buffer that holds it, 0 elsewhere
PlaceOf(W, id) ==
  LET cut == { i \in 1..Len(W.cutter.queue) : W.cutter.queue[i].id = id }
      b12 == { i \in 1..Len(W.buf12.items) : W.buf12.items[i] = id }
      b23 == { i \in 1..Len(W.buf23.items) : W.buf23.items[i] = id }
  IN  IF cut # {} THEN CHOOSE i \in cut : TRUE
      ELSE IF b12 # {} THEN CHOOSE i \in b12 : TRUE
      ELSE IF b23 # {} THEN CHOOSE i \in b23 : TRUE
      ELSE 0

\* no item of W is ahead of an item that arrived before it
NoOvertaking(W) ==
  \A i, j \in 1..(W.nextItemId - 1) :
    i < j => /\ StageOf(W, i) >= StageOf(W, j)
             /\ (StageOf(W, i) = StageOf(W, j) /\ StageOf(W, i) < 12)
                  => PlaceOf(W, i) < PlaceOf(W, j)

\* C39: with cutterCapacity = 1 and a single start(), items are marked
\* complete in strictly increasing id order: no item overtakes an earlier
\* one anywhere in the line, and the item a step completes is the one that
\* follows the last one completed.
CompletionOrder ==
  /\ []((starts <= 1 /\ sim.params.cutterCapacity = 1) => NoOvertaking(sim))
  /\ [][(TickStep /\ starts <= 1 /\ sim.params.cutterCapacity = 1
           /\ sim'.m.completed # sim.m.completed)
          => /\ HeadKind(sim) = "packDone"
             /\ Head(sim.q).action.id = sim.m.completed + 1
             /\ \A i \in 1..(sim.nextItemId - 1) :
                  StageOf(sim', i) = 12 <=> i <= sim.m.completed + 1]_vars

\* items complete, and four more on the line one behind the other, among them one
\* in the packer and one waiting for the cutter
CompletionOrderWitness ==
  /\ starts = 1
  /\ sim.params.cutterCapacity = 1
  /\ sim.m.completed >= 2
  /\ StageOf(sim, sim.m.completed + 1) = 11
  /\ Len(sim.cutter.queue) >= 1
  /\ sim.m.wip >= 4


\* a complete event is emitted
EmitsComplete == lastEvent'.type = "complete" /\ (lastEvent' # lastEvent \/ TickComplete)

\* C40: a run interrupted by stop(), reset() or updateParams() before the
\* clock reaches the horizon emits no complete event unless start() is called
\* again: the interruption disarms the driver, a disarmed driver stays
\* disarmed, its clock stands still and no complete is emitted until a
\* start(), so a collaborator that awaits complete after reset() and start()
\* is resumed only by a tick of a run nobody has stopped, reset or
\* reconfigured since its start.
InterruptedNeverCompletes ==
  /\ [](isRunning <=> intervalId # Null)
  /\ [][(Stop \/ Reset \/ UpdateParams) => (~isRunning' /\ intervalId' = Null)]_vars
  /\ [][(~isRunning /\ ~Start)
          => /\ ~isRunning'
             /\ ~EmitsComplete
             /\ (~(Reset \/ UpdateParams) => sim'.now = sim.now)]_vars
  /\ [][EmitsComplete
          => /\ isRunning /\ ~isRunning'
             /\ sim.now >= SimTime(sim)
             /\ ~(Start \/ Stop \/ Reset \/ UpdateParams)]_vars

\* a run stopped below the horizon after it had stepped, with no tick left
\* in flight: the last event is a state event
InterruptedNeverCompletesWitness ==
  /\ ~isRunning
  /\ intervalId = Null
  /\ starts = 1
  /\ inflight = 0
  /\ sim.now > 0
  /\ sim.now < SimTime(sim)
  /\ sim.m.completed >= 1
  /\ lastEvent.type = "state"

====
